---- MODULE Spec2Model ----
(***************************************************************************)
(* The five MCP adapter servers of this repository (Pipedrive, FreshWorks, *)
(* GoHighLevel, Hubspot, Keap) as one state machine: a tool invocation is  *)
(* validated against the tool's schema, its handler builds one request,    *)
(* suspends at the network call, and turns the outcome into an Envelope.   *)
(*                                                                         *)
(* JavaScript values are tagged records, texts are strings, and            *)
(* JSON.stringify / JSON.parse / encodeURIComponent / URLSearchParams are  *)
(* operators that compute what the JavaScript functions compute.           *)
(***************************************************************************)
EXTENDS Integers, Sequences, FiniteSets, TLC

VARIABLES
  calls,     \* slot -> the number of HTTP calls the invocation has issued
  apiClient  \* the Pipedrive ApiClient of the process, undefined before it
             \* is constructed

(***************************************************************************)
(* JavaScript values.  An object is an ordered sequence of <<key, value>>  *)
(* pairs (property order is insertion order; no integer-like keys occur).  *)
(***************************************************************************)
Undefined == [t |-> "undefined"]
Null == [t |-> "null"]
Num(n) == [t |-> "number", v |-> n]
Str(s) == [t |-> "string", v |-> s]
Bool(b) == [t |-> "boolean", v |-> b]
Arr(elems) == [t |-> "array", v |-> elems]
Obj(pairs) == [t |-> "object", v |-> pairs]

\* Object.create(null) with the given properties: an object that inherits
\* nothing, toString and valueOf included.
Bare(pairs) == [t |-> "object", v |-> pairs, proto |-> Null]
IsBare(x) == x.t = "object" /\ "proto" \in DOMAIN x

IsObj(x) == x.t = "object"

HasKey(o, k) == IsObj(o) /\ \E i \in 1..Len(o.v) : o.v[i][1] = k

\* o.k : the property's value, undefined when o has no such property.
Get(o, k) ==
  IF HasKey(o, k)
  THEN o.v[CHOOSE i \in 1..Len(o.v) : o.v[i][1] = k][2]
  ELSE Undefined

\* o.k = x : replaces the value in place, or appends a new property.
Put(o, k, x) ==
  IF HasKey(o, k)
  THEN Obj([i \in 1..Len(o.v) |-> IF o.v[i][1] = k THEN <<k, x>> ELSE o.v[i]])
  ELSE Obj(Append(o.v, <<k, x>>))

\* JavaScript truthiness: undefined, null, false, 0 and "" are falsy.
Truthy(x) ==
  CASE x.t = "undefined" -> FALSE
    [] x.t = "null" -> FALSE
    [] x.t = "boolean" -> x.v
    [] x.t = "number" -> x.v # 0
    [] x.t = "string" -> x.v # ""
    [] OTHER -> TRUE

(***************************************************************************)
(* Texts.                                                                  *)
(***************************************************************************)
StartsWith(s, p) == Len(s) >= Len(p) /\ SubSeq(s, 1, Len(p)) = p

Contains(s, p) ==
  \E i \in 1..(Len(s) - Len(p) + 1) : SubSeq(s, i, i + Len(p) - 1) = p

\* The part of s before its first line break (all of s when it has none).
RECURSIVE FirstLine(_)
FirstLine(s) ==
  IF s = "" \/ Head(s) = "\n" THEN "" ELSE Head(s) \o FirstLine(Tail(s))

RECURSIVE JoinWith(_, _)
JoinWith(texts, sep) ==
  IF texts = <<>> THEN ""
  ELSE IF Len(texts) = 1 THEN texts[1]
  ELSE texts[1] \o sep \o JoinWith(Tail(texts), sep)

\* Number.prototype.toString for the integers of the model.
NumberToString(n) == ToString(n)

\* String(x), the conversion a template literal applies to ${x}.
RECURSIVE JsString(_)
JsString(x) ==
  CASE x.t = "undefined" -> "undefined"
    [] x.t = "null" -> "null"
    [] x.t = "boolean" -> (IF x.v THEN "true" ELSE "false")
    [] x.t = "number" -> NumberToString(x.v)
    [] x.t = "string" -> x.v
    [] x.t = "array" ->
         JoinWith([i \in 1..Len(x.v) |->
                     IF x.v[i].t \in {"undefined", "null"} THEN ""
                     ELSE JsString(x.v[i])], ",")
    [] OTHER -> "[object Object]"

(***************************************************************************)
(* JSON.stringify.                                                         *)
(***************************************************************************)
EscapeChar(c) ==
  CASE c = "\"" -> "\\\""
    [] c = "\\" -> "\\\\"
    [] c = "\n" -> "\\n"
    [] OTHER -> c

RECURSIVE EscapeText(_)
EscapeText(s) ==
  IF s = "" THEN "" ELSE EscapeChar(Head(s)) \o EscapeText(Tail(s))

\* Variant of Quote: strings written between single quotes, as a
\* JavaScript literal rather than as JSON.
QuoteSingle(s) == "'" \o s \o "'"

Quote(s) == "\"" \o EscapeText(s) \o "\""

\* The properties JSON.stringify writes: those whose value is not undefined.
Written(pairs) == SelectSeq(pairs, LAMBDA p : p[2].t # "undefined")

\* JSON.stringify(x, null, 2) for x not undefined; ind is the current indent.
RECURSIVE Pretty(_, _)
Pretty(x, ind) ==
  CASE x.t = "null" -> "null"
    [] x.t = "undefined" -> "null"
    [] x.t = "boolean" -> (IF x.v THEN "true" ELSE "false")
    [] x.t = "number" -> NumberToString(x.v)
    [] x.t = "string" -> Quote(x.v)
    [] x.t = "array" ->
         IF x.v = <<>> THEN "[]"
         ELSE "[\n"
              \o JoinWith([i \in 1..Len(x.v) |->
                             ind \o "  " \o Pretty(x.v[i], ind \o "  ")], ",\n")
              \o "\n" \o ind \o "]"
    [] OTHER ->
         LET ps == Written(x.v) IN
         IF ps = <<>> THEN "{}"
         ELSE "{\n"
              \o JoinWith([i \in 1..Len(ps) |->
                             ind \o "  " \o Quote(ps[i][1]) \o ": "
                             \o Pretty(ps[i][2], ind \o "  ")], ",\n")
              \o "\n" \o ind \o "}"

\* JSON.stringify(x) for x not undefined.
RECURSIVE Compact(_)
Compact(x) ==
  CASE x.t = "null" -> "null"
    [] x.t = "undefined" -> "null"
    [] x.t = "boolean" -> (IF x.v THEN "true" ELSE "false")
    [] x.t = "number" -> NumberToString(x.v)
    [] x.t = "string" -> Quote(x.v)
    [] x.t = "array" ->
         "[" \o JoinWith([i \in 1..Len(x.v) |-> Compact(x.v[i])], ",") \o "]"
    [] OTHER ->
         LET ps == Written(x.v) IN
         "{" \o JoinWith([i \in 1..Len(ps) |->
                            Quote(ps[i][1]) \o ":" \o Compact(ps[i][2])], ",")
         \o "}"

\* A text-valued expression: a string, or the value undefined.
Text(s) == [t |-> "string", v |-> s]

\* Variant of JSONstringify2: the indentation argument left out.
JSONstringifyFlat(x) ==
  IF x.t = "undefined" THEN Undefined ELSE [t |-> "string", v |-> Compact(x)]

\* JSON.stringify(x, null, 2): undefined for undefined, a string otherwise.
JSONstringify2(x) == IF x.t = "undefined" THEN Undefined ELSE Text(Pretty(x, ""))

\* JSON.stringify(x)
JSONstringify(x) == IF x.t = "undefined" THEN Undefined ELSE Text(Compact(x))

(***************************************************************************)
(* JSON.parse: a recursive-descent parser.  Each Parse* operator returns   *)
(* [ok, v, rest]: the value read and the text left after it.               *)
(***************************************************************************)
ParseFail == [ok |-> FALSE, v |-> Undefined, rest |-> ""]
Parsed(x, rest) == [ok |-> TRUE, v |-> x, rest |-> rest]

Digits == {"0", "1", "2", "3", "4", "5", "6", "7", "8", "9"}

DigitValue(c) ==
  CASE c = "0" -> 0 [] c = "1" -> 1 [] c = "2" -> 2 [] c = "3" -> 3
    [] c = "4" -> 4 [] c = "5" -> 5 [] c = "6" -> 6 [] c = "7" -> 7
    [] c = "8" -> 8 [] OTHER -> 9

RECURSIVE SkipWs(_)
SkipWs(s) ==
  IF s # "" /\ Head(s) \in {" ", "\n", "\t", "\r"} THEN SkipWs(Tail(s)) ELSE s

RECURSIVE ParseDigits(_, _)
ParseDigits(s, acc) ==
  IF s # "" /\ Head(s) \in Digits
  THEN ParseDigits(Tail(s), 10 * acc + DigitValue(Head(s)))
  ELSE Parsed(Num(acc), s)

ParseNumber(s) ==
  IF Head(s) = "-"
  THEN IF Len(s) >= 2 /\ SubSeq(s, 2, 2) \in Digits
       THEN LET r == ParseDigits(Tail(s), 0) IN Parsed(Num(0 - r.v.v), r.rest)
       ELSE ParseFail
  ELSE ParseDigits(s, 0)

\* s is the text after the opening quote.
RECURSIVE ParseString(_, _)
ParseString(s, acc) ==
  IF s = "" THEN ParseFail
  ELSE LET c == Head(s) IN
       CASE c = "\"" -> Parsed(Str(acc), Tail(s))
         [] c = "\n" -> ParseFail
         [] c = "\\" ->
              IF Len(s) < 2 THEN ParseFail
              ELSE LET e == SubSeq(s, 2, 2) IN
                   CASE e = "\"" -> ParseString(SubSeq(s, 3, Len(s)), acc \o "\"")
                     [] e = "\\" -> ParseString(SubSeq(s, 3, Len(s)), acc \o "\\")
                     [] e = "n" -> ParseString(SubSeq(s, 3, Len(s)), acc \o "\n")
                     [] OTHER -> ParseFail
         [] OTHER -> ParseString(Tail(s), acc \o c)

RECURSIVE ParseValue(_)
RECURSIVE ParseElements(_, _)
RECURSIVE ParseMembers(_, _)

\* s is the text after "[" or after a "," of an array.
ParseElements(s, acc) ==
  LET After(r) ==
        IF ~r.ok THEN ParseFail
        ELSE LET q == SkipWs(r.rest) IN
             IF q = "" THEN ParseFail
             ELSE IF Head(q) = "," THEN ParseElements(Tail(q), Append(acc, r.v))
             ELSE IF Head(q) = "]" THEN Parsed(Arr(Append(acc, r.v)), Tail(q))
             ELSE ParseFail
  IN After(ParseValue(s))

\* s is the text after "{" or after a "," of an object; acc the object so far.
ParseMembers(s, acc) ==
  LET AfterValue(key, r) ==
        IF ~r.ok THEN ParseFail
        ELSE LET q == SkipWs(r.rest)
                 o == Put(acc, key.v.v, r.v) IN
             IF q = "" THEN ParseFail
             ELSE IF Head(q) = "," THEN ParseMembers(Tail(q), o)
             ELSE IF Head(q) = "}" THEN Parsed(o, Tail(q))
             ELSE ParseFail
      AfterKey(key) ==
        IF ~key.ok THEN ParseFail
        ELSE LET c == SkipWs(key.rest) IN
             IF c = "" \/ Head(c) # ":" THEN ParseFail
             ELSE AfterValue(key, ParseValue(Tail(c)))
      k == SkipWs(s)
  IN IF k = "" \/ Head(k) # "\"" THEN ParseFail
     ELSE AfterKey(ParseString(Tail(k), ""))

ParseValue(s0) ==
  LET s == SkipWs(s0) IN
  IF s = "" THEN ParseFail
  ELSE LET c == Head(s) IN
       CASE c = "{" ->
              (LET q == SkipWs(Tail(s)) IN
               IF q # "" /\ Head(q) = "}" THEN Parsed(Obj(<<>>), Tail(q))
               ELSE ParseMembers(Tail(s), Obj(<<>>)))
         [] c = "[" ->
              (LET q == SkipWs(Tail(s)) IN
               IF q # "" /\ Head(q) = "]" THEN Parsed(Arr(<<>>), Tail(q))
               ELSE ParseElements(Tail(s), <<>>))
         [] c = "\"" -> ParseString(Tail(s), "")
         [] c \in Digits \/ c = "-" -> ParseNumber(s)
         [] StartsWith(s, "null") -> Parsed(Null, SubSeq(s, 5, Len(s)))
         [] StartsWith(s, "true") -> Parsed(Bool(TRUE), SubSeq(s, 5, Len(s)))
         [] StartsWith(s, "false") -> Parsed(Bool(FALSE), SubSeq(s, 6, Len(s)))
         [] OTHER -> ParseFail

\* JSON.parse(text): [ok |-> TRUE, v |-> value], or ok = FALSE where
\* JSON.parse throws a SyntaxError (also for text after the value).
JSONparse(text) ==
  LET Whole(r) ==
        IF r.ok /\ SkipWs(r.rest) = "" THEN [ok |-> TRUE, v |-> r.v]
        ELSE [ok |-> FALSE, v |-> Undefined]
  IN Whole(ParseValue(text))

(***************************************************************************)
(* Tool schemas.  A field of a schema is a record: its name, its zod kind, *)
(* whether it is .optional(), its .default() (undefined when it has none), *)
(* the shape of a nested z.object, a .min().max() range (empty when none), *)
(* the values of a z.enum, and the .refine() of createContact.             *)
(***************************************************************************)
Req(n, k) ==
  [name |-> n, kind |-> k, opt |-> FALSE, def |-> Undefined, shape |-> <<>>,
   range |-> {}, vals |-> {}, refine |-> ""]
Opt(n, k) == [Req(n, k) EXCEPT !.opt = TRUE]
Dflt(n, k, d) == [Req(n, k) EXCEPT !.opt = TRUE, !.def = d]
Ranged(f, lo, hi) == [f EXCEPT !.range = lo..hi]
Nested(f, shape) == [f EXCEPT !.shape = shape]
OneOf(f, vals) == [f EXCEPT !.vals = vals]
\* Variant of Refined: the schema without its .refine().
Unrefined(f, r) == f

Refined(f, r) == [f EXCEPT !.refine = r]

Servers == {"pipedrive", "freshworks", "ghl", "hubspot", "keap"}

PipedriveTools ==
  {"getAllPersons", "getPersonByID", "searchPersons", "getAllOrganizations",
   "getOrganizationByID", "searchOrganizations"}

FreshworksTools ==
  {"freshdesk-list-tickets", "freshdesk-get-ticket", "freshdesk-create-ticket",
   "freshdesk-update-ticket", "freshdesk-add-note", "freshdesk-list-contacts",
   "freshdesk-get-contact", "freshdesk-create-contact",
   "freshdesk-update-contact", "freshchat-list-conversations",
   "freshchat-get-conversation", "freshchat-send-message"}

GhlTools ==
  {"getContacts", "getContact", "createContact", "updateContact",
   "addContactTags", "removeContactTags", "getTasks", "createTask",
   "updateTask", "deleteTask", "getOpportunities", "createOpportunity",
   "getPipelines", "createCalendarEvent", "getCalendars"}

HubspotTools ==
  {"hubspot-list-contacts", "hubspot-get-contact", "hubspot-create-contact",
   "hubspot-update-contact", "hubspot-search-contacts", "hubspot-list-deals"}

KeapTools ==
  {"keap-list-contacts", "keap-get-contact", "keap-create-contact",
   "keap-update-contact", "keap-search-contacts", "keap-list-opportunities"}

Tools == PipedriveTools \cup FreshworksTools \cup GhlTools \cup HubspotTools
           \cup KeapTools

ServerOf(tool) ==
  CASE tool \in PipedriveTools -> "pipedrive"
    [] tool \in FreshworksTools -> "freshworks"
    [] tool \in GhlTools -> "ghl"
    [] tool \in HubspotTools -> "hubspot"
    [] OTHER -> "keap"

GhlContactShape ==
  << Opt("email", "email"), Opt("phone", "string"), Opt("firstName", "string"),
     Opt("lastName", "string"), Opt("name", "string"),
     Opt("companyName", "string"), Opt("address1", "string"),
     Opt("city", "string"), Opt("state", "string"), Opt("country", "string"),
     Opt("postalCode", "string"), Opt("source", "string"),
     Opt("tags", "strings"), Opt("customField", "record") >>

KeapContactShape ==
  << Opt("email", "string"), Opt("given_name", "string"),
     Opt("family_name", "string"),
     Nested(Opt("phone_numbers", "objects"),
            << Req("type", "string"), Req("number", "string") >>),
     Nested(Opt("addresses", "objects"),
            << Req("field_type", "string"), Opt("line1", "string"),
               Opt("city", "string"), Opt("state", "string"),
               Opt("postal_code", "string"), Opt("country", "string") >>) >>

KeapFields == Arr(<<Str("email"), Str("given_name"), Str("family_name")>>)
KeapOpportunityFields ==
  Arr(<<Str("title"), Str("stage"), Str("contact"),
        Str("estimated_close_date")>>)
HubspotProperties == Arr(<<Str("email"), Str("firstname"), Str("lastname")>>)
HubspotDealProperties ==
  Arr(<<Str("dealname"), Str("amount"), Str("dealstage")>>)

\* The raw shape each server.tool(...) call registers, in declaration order.
Schema(tool) ==
  CASE tool \in {"getAllPersons", "getAllOrganizations"} -> <<>>
    [] tool = "getPersonByID" -> << Req("personId", "number") >>
    [] tool = "getOrganizationByID" -> << Req("organizationId", "number") >>
    [] tool \in {"searchPersons", "searchOrganizations"} ->
         << Req("term", "string") >>
    [] tool = "freshdesk-list-tickets" ->
         << Req("apiKey", "string"), Req("subdomain", "string"),
            Dflt("page", "number", Num(1)), Dflt("perPage", "number", Num(30)),
            Opt("filter", "string") >>
    [] tool = "freshdesk-get-ticket" ->
         << Req("apiKey", "string"), Req("subdomain", "string"),
            Req("ticketId", "number") >>
    [] tool = "freshdesk-create-ticket" ->
         << Req("apiKey", "string"), Req("subdomain", "string"),
            Req("subject", "string"), Req("description", "string"),
            Req("email", "email"),
            Ranged(Dflt("priority", "number", Num(2)), 1, 4),
            Ranged(Dflt("status", "number", Num(2)), 2, 5),
            Opt("tags", "strings") >>
    [] tool = "freshdesk-update-ticket" ->
         << Req("apiKey", "string"), Req("subdomain", "string"),
            Req("ticketId", "number"), Opt("subject", "string"),
            Opt("description", "string"),
            Ranged(Opt("priority", "number"), 1, 4),
            Ranged(Opt("status", "number"), 2, 5), Opt("tags", "strings") >>
    [] tool = "freshdesk-add-note" ->
         << Req("apiKey", "string"), Req("subdomain", "string"),
            Req("ticketId", "number"), Req("body", "string"),
            Dflt("isPrivate", "boolean", Bool(TRUE)) >>
    [] tool = "freshdesk-list-contacts" ->
         << Req("apiKey", "string"), Req("subdomain", "string"),
            Dflt("page", "number", Num(1)), Dflt("perPage", "number", Num(30)) >>
    [] tool = "freshdesk-get-contact" ->
         << Req("apiKey", "string"), Req("subdomain", "string"),
            Req("contactId", "number") >>
    [] tool = "freshdesk-create-contact" ->
         << Req("apiKey", "string"), Req("subdomain", "string"),
            Req("name", "string"), Req("email", "email"),
            Opt("phone", "string"), Opt("mobilePhone", "string"),
            Opt("twitterId", "string"), Opt("companyName", "string"),
            Opt("description", "string") >>
    [] tool = "freshdesk-update-contact" ->
         << Req("apiKey", "string"), Req("subdomain", "string"),
            Req("contactId", "number"), Opt("name", "string"),
            Opt("email", "email"), Opt("phone", "string"),
            Opt("mobilePhone", "string"), Opt("twitterId", "string"),
            Opt("description", "string") >>
    [] tool = "freshchat-list-conversations" ->
         << Req("apiKey", "string"), Req("domain", "string"),
            Opt("assigneeId", "string"),
            OneOf(Opt("status", "enum"),
                  {"new", "assigned", "resolved", "closed"}),
            Dflt("page", "number", Num(1)),
            Dflt("itemsPerPage", "number", Num(20)) >>
    [] tool = "freshchat-get-conversation" ->
         << Req("apiKey", "string"), Req("domain", "string"),
            Req("conversationId", "string") >>
    [] tool = "freshchat-send-message" ->
         << Req("apiKey", "string"), Req("domain", "string"),
            Req("conversationId", "string"),
            OneOf(Dflt("actorType", "enum", Str("agent")), {"agent", "system"}),
            Req("actorId", "string"), Req("message", "string"),
            OneOf(Dflt("messageType", "enum", Str("normal")),
                  {"normal", "private"}) >>
    [] tool = "getContacts" ->
         << Req("apiKey", "string"), Opt("query", "string"),
            Dflt("page", "number", Num(1)), Dflt("limit", "number", Num(20)) >>
    [] tool = "getContact" ->
         << Req("apiKey", "string"), Req("contactId", "string") >>
    [] tool = "createContact" ->
         << Req("apiKey", "string"),
            Refined(Nested(Req("contactData", "object"), GhlContactShape),
                    "Either email or phone must be provided") >>
    [] tool = "updateContact" ->
         << Req("apiKey", "string"), Req("contactId", "string"),
            Nested(Req("contactData", "object"), GhlContactShape) >>
    [] tool \in {"addContactTags", "removeContactTags"} ->
         << Req("apiKey", "string"), Req("contactId", "string"),
            Req("tags", "strings") >>
    [] tool = "getTasks" ->
         << Req("apiKey", "string"), Dflt("page", "number", Num(1)),
            Dflt("limit", "number", Num(20)) >>
    [] tool = "createTask" ->
         << Req("apiKey", "string"),
            Nested(Req("taskData", "object"),
                   << Req("title", "string"), Opt("description", "string"),
                      Req("dueDate", "string"),
                      Dflt("completed", "boolean", Bool(FALSE)),
                      Opt("assignedTo", "string"),
                      Opt("contactId", "string") >>) >>
    [] tool = "updateTask" ->
         << Req("apiKey", "string"), Req("taskId", "string"),
            Nested(Req("taskData", "object"),
                   << Opt("title", "string"), Opt("description", "string"),
                      Opt("dueDate", "string"), Opt("completed", "boolean"),
                      Opt("assignedTo", "string") >>) >>
    [] tool = "deleteTask" ->
         << Req("apiKey", "string"), Req("taskId", "string") >>
    [] tool = "getOpportunities" ->
         << Req("apiKey", "string"), Opt("pipelineId", "string"),
            Opt("stageId", "string"), Dflt("page", "number", Num(1)),
            Dflt("limit", "number", Num(20)) >>
    [] tool = "createOpportunity" ->
         << Req("apiKey", "string"),
            Nested(Req("opportunityData", "object"),
                   << Req("name", "string"), Req("pipelineId", "string"),
                      Req("stageId", "string"), Opt("contactId", "string"),
                      Opt("monetaryValue", "number"),
                      Opt("assignedTo", "string") >>) >>
    [] tool \in {"getPipelines", "getCalendars"} -> << Req("apiKey", "string") >>
    [] tool = "createCalendarEvent" ->
         << Req("apiKey", "string"),
            Nested(Req("eventData", "object"),
                   << Req("title", "string"), Opt("description", "string"),
                      Req("startTime", "string"), Req("endTime", "string"),
                      Req("calendarId", "string"), Opt("contacts", "strings"),
                      Dflt("allDay", "boolean", Bool(FALSE)) >>) >>
    [] tool = "hubspot-list-contacts" ->
         << Req("apiKey", "string"), Dflt("limit", "number", Num(10)),
            Dflt("properties", "strings", HubspotProperties) >>
    [] tool = "hubspot-get-contact" ->
         << Req("apiKey", "string"), Req("contactId", "string"),
            Dflt("properties", "strings", HubspotProperties) >>
    [] tool = "hubspot-create-contact" ->
         << Req("apiKey", "string"), Req("properties", "stringrecord") >>
    [] tool = "hubspot-update-contact" ->
         << Req("apiKey", "string"), Req("contactId", "string"),
            Req("properties", "stringrecord") >>
    [] tool = "hubspot-search-contacts" ->
         << Req("apiKey", "string"), Req("query", "string"),
            Dflt("limit", "number", Num(10)),
            Dflt("properties", "strings", HubspotProperties) >>
    [] tool = "hubspot-list-deals" ->
         << Req("apiKey", "string"), Dflt("limit", "number", Num(10)),
            Dflt("properties", "strings", HubspotDealProperties) >>
    [] tool = "keap-list-contacts" ->
         << Req("apiKey", "string"), Dflt("limit", "number", Num(10)),
            Dflt("fields", "strings", KeapFields) >>
    [] tool = "keap-get-contact" ->
         << Req("apiKey", "string"), Req("contactId", "string"),
            Dflt("fields", "strings", KeapFields) >>
    [] tool = "keap-create-contact" ->
         << Req("apiKey", "string"),
            Nested(Req("contact", "object"), KeapContactShape) >>
    [] tool = "keap-update-contact" ->
         << Req("apiKey", "string"), Req("contactId", "string"),
            Nested(Req("contact", "object"), KeapContactShape) >>
    [] tool = "keap-search-contacts" ->
         << Req("apiKey", "string"), Req("query", "string"),
            Dflt("limit", "number", Num(10)),
            Dflt("fields", "strings", KeapFields) >>
    [] OTHER ->
         << Req("apiKey", "string"), Dflt("limit", "number", Num(10)),
            Dflt("fields", "strings", KeapOpportunityFields) >>

(***************************************************************************)
(* Schema validation: what z.object(shape).safeParse(input) computes.      *)
(***************************************************************************)
ZodOk(x) == [ok |-> TRUE, v |-> x, issue |-> ""]
ZodFail(issue) == [ok |-> FALSE, v |-> Undefined, issue |-> issue]

\* z.string().email(): one "@", something before it, a dot after it, no blank.
IsEmail(s) ==
  /\ ~Contains(s, " ")
  /\ \E i \in 2..Len(s) :
       /\ SubSeq(s, i, i) = "@"
       /\ ~Contains(SubSeq(s, 1, i - 1), "@")
       /\ ~Contains(SubSeq(s, i + 1, Len(s)), "@")
       /\ \E j \in (i + 2)..(Len(s) - 1) : SubSeq(s, j, j) = "."

AllOfType(elems, ty) == \A i \in 1..Len(elems) : elems[i].t = ty

\* Variant of ZodAbsent: every field treated as .optional().
ZodAbsentLenient(f) ==
  IF f.def.t # "undefined" THEN ZodOk(f.def) ELSE ZodOk(Undefined)

\* A field the input does not name: its .default(), undefined when it is
\* .optional(), and the issue "Required" otherwise.
ZodAbsent(f) ==
  IF f.def.t # "undefined" THEN ZodOk(f.def)
  ELSE IF f.opt THEN ZodOk(Undefined)
  ELSE ZodFail("Required")

RECURSIVE ZodObject(_, _)
RECURSIVE ZodFields(_, _, _, _)
RECURSIVE ZodField(_, _)
RECURSIVE ZodElements(_, _, _, _)

\* One field: ZodAbsent for an absent value, else the type check.
ZodField(f, raw) ==
  IF raw.t = "undefined" THEN ZodAbsent(f)
  ELSE CASE f.kind = "string" ->
              IF raw.t = "string" THEN ZodOk(raw) ELSE ZodFail("Expected string")
         [] f.kind = "email" ->
              IF raw.t # "string" THEN ZodFail("Expected string")
              ELSE IF IsEmail(raw.v) THEN ZodOk(raw)
              ELSE ZodFail("Invalid email")
         [] f.kind = "number" ->
              IF raw.t # "number" THEN ZodFail("Expected number")
              ELSE IF f.range # {} /\ raw.v \notin f.range
              THEN ZodFail("Number out of range")
              ELSE ZodOk(raw)
         [] f.kind = "boolean" ->
              IF raw.t = "boolean" THEN ZodOk(raw)
              ELSE ZodFail("Expected boolean")
         [] f.kind = "enum" ->
              IF raw.t = "string" /\ raw.v \in f.vals THEN ZodOk(raw)
              ELSE ZodFail("Invalid enum value")
         [] f.kind = "strings" ->
              IF raw.t = "array" /\ AllOfType(raw.v, "string") THEN ZodOk(raw)
              ELSE ZodFail("Expected array of strings")
         [] f.kind = "record" ->
              IF raw.t = "object" THEN ZodOk(raw) ELSE ZodFail("Expected object")
         [] f.kind = "stringrecord" ->
              IF raw.t = "object"
                 /\ AllOfType([i \in 1..Len(raw.v) |-> raw.v[i][2]], "string")
              THEN ZodOk(raw)
              ELSE ZodFail("Expected record of strings")
         [] f.kind = "objects" ->
              IF raw.t = "array" THEN ZodElements(f.shape, raw.v, 1, <<>>)
              ELSE ZodFail("Expected array")
         [] OTHER ->
              LET r == ZodObject(f.shape, raw) IN
              IF ~r.ok THEN r
              ELSE IF f.refine # ""
                      /\ ~(Truthy(Get(r.v, "email")) \/ Truthy(Get(r.v, "phone")))
              THEN ZodFail(f.refine)
              ELSE r

ZodElements(shape, elems, i, acc) ==
  IF i > Len(elems) THEN ZodOk(Arr(acc))
  ELSE LET r == ZodObject(shape, elems[i]) IN
       IF ~r.ok THEN r ELSE ZodElements(shape, elems, i + 1, Append(acc, r.v))

\* The fields in shape order; a key is set when its value is not undefined
\* (keys the input does not name stay absent, unknown keys are stripped).
ZodFields(shape, x, i, acc) ==
  IF i > Len(shape) THEN ZodOk(acc)
  ELSE LET f == shape[i]
           r == ZodField(f, Get(x, f.name)) IN
       IF ~r.ok THEN ZodFail(f.name \o ": " \o r.issue)
       ELSE ZodFields(shape, x, i + 1,
                      IF r.v.t = "undefined" THEN acc ELSE Put(acc, f.name, r.v))

ZodObject(shape, x) ==
  IF ~IsObj(x) THEN ZodFail("Expected object")
  ELSE ZodFields(shape, x, 1, Obj(<<>>))

(***************************************************************************)
(* URL encoding.  The texts of the model are built from letters, digits,   *)
(* the unreserved marks and the reserved characters of PercentCode; the    *)
(* character LoneSurrogate stands for an unpaired UTF-16 surrogate (such   *)
(* as the JSON string "\ud800"), which no string literal here can hold.    *)
(***************************************************************************)
LoneSurrogate == "^"

PercentCode(c) ==
  CASE c = " " -> "%20" [] c = "@" -> "%40" [] c = "/" -> "%2F"
    [] c = "?" -> "%3F" [] c = "#" -> "%23" [] c = "&" -> "%26"
    [] c = "=" -> "%3D" [] c = "," -> "%2C" [] c = ":" -> "%3A"
    [] c = "+" -> "%2B" [] c = "%" -> "%25" [] OTHER -> c

\* URLSearchParams.prototype.toString: form encoding, a blank becomes "+".
FormCode(c) == IF c = " " THEN "+" ELSE PercentCode(c)

\* axios' encode(): encodeURIComponent, then ":", "," kept and "%20" as "+".
AxiosCode(c) ==
  IF c \in {":", ","} THEN c ELSE IF c = " " THEN "+" ELSE PercentCode(c)

\* s with each character replaced by its code under one of the encodings.
RECURSIVE MapChars(_, _)
MapChars(s, encoding) ==
  IF s = "" THEN ""
  ELSE (CASE encoding = "form" -> FormCode(Head(s))
          [] encoding = "axios" -> AxiosCode(Head(s))
          [] OTHER -> PercentCode(Head(s)))
       \o MapChars(Tail(s), encoding)

\* encodeURIComponent throws URIError("URI malformed") on an unpaired surrogate.
Malformed(s) == Contains(s, LoneSurrogate)
encodeURIComponent(s) == MapChars(s, "uri")

URLSearchParamsToString(params) ==
  JoinWith([i \in 1..Len(params) |->
              MapChars(params[i][1], "form") \o "="
              \o MapChars(params[i][2], "form")], "&")

\* axios buildURL: the params that are neither null nor undefined, in order.
AxiosBuildURL(url, params) ==
  LET ps == SelectSeq(params.v, LAMBDA q : q[2].t \notin {"undefined", "null"})
      query == JoinWith([i \in 1..Len(ps) |->
                           MapChars(ps[i][1], "axios") \o "="
                           \o MapChars(JsString(ps[i][2]), "axios")], "&")
  IN IF ps = <<>> THEN url ELSE url \o "?" \o query

(***************************************************************************)
(* Requests.  A request is what the handler hands to its HTTP client:      *)
(* fetch(url, init), an axios client method, or a Pipedrive API method.    *)
(***************************************************************************)
NoHeaders == [h \in {} |-> ""]

\* Variant of BearerHeaders: the key without the scheme "Bearer".
BareHeaders(apiKey) ==
  [Authorization |-> JsString(apiKey), ContentType |-> "application/json"]

BearerHeaders(apiKey) ==
  [Authorization |-> "Bearer " \o JsString(apiKey),
   ContentType |-> "application/json"]

Request(method, url, headers, body) ==
  [method |-> method, url |-> url, headers |-> headers, body |-> body]

Built(req) == [threw |-> FALSE, req |-> req, error |-> Undefined]
JsError(name, message) ==
  [t |-> "error", name |-> name, message |-> Str(message),
   response |-> Undefined]
BuildThrew(error) ==
  [threw |-> TRUE, req |-> Request("", "", NoHeaders, Undefined),
   error |-> error]
URIError == JsError("URIError", "URI malformed")

\* ----- GoHighLevel -----
GHL_API_BASE == "https://rest.gohighlevel.com/v1"

\* Variant of ghlRequestFetch: a process-wide counter of the requests sent
\* so far is appended to the URL.
ghlRequestFetchCounting(apiKey, endpoint, method, body) ==
  [method |-> method,
   url |-> GHL_API_BASE \o endpoint \o "#"
           \o NumberToString(Cardinality({i \in DOMAIN calls : calls[i] > 0})),
   headers |-> BearerHeaders(apiKey),
   body |-> IF Truthy(body) THEN JSONstringify(body) ELSE Undefined]

\* The fetch call of ghlRequest(apiKey, endpoint, method = "GET", body).
ghlRequestFetch(apiKey, endpoint, method, body) ==
  Request(method, GHL_API_BASE \o endpoint, BearerHeaders(apiKey),
          IF Truthy(body) THEN JSONstringify(body) ELSE Undefined)

\* Variant of QueryAppend: the key is appended whatever the value is.
QueryAppendAlways(params, key, x) == Append(params, <<key, JsString(x)>>)

\* if (x) queryParams.append(key, x) / x.toString()
QueryAppend(params, key, x) ==
  IF Truthy(x) THEN Append(params, <<key, JsString(x)>>) ELSE params

GhlListQuery(tool, a) ==
  LET filters ==
        CASE tool = "getContacts" ->
               QueryAppend(<<>>, "query", Get(a, "query"))
          [] tool = "getOpportunities" ->
               QueryAppend(QueryAppend(<<>>, "pipelineId", Get(a, "pipelineId")),
                           "stageId", Get(a, "stageId"))
          [] OTHER -> <<>>
  IN QueryAppend(QueryAppend(filters, "page", Get(a, "page")),
                 "limit", Get(a, "limit"))

GhlRequest(tool, a) ==
  LET key == Get(a, "apiKey")
      cid == JsString(Get(a, "contactId"))
      tid == JsString(Get(a, "taskId"))
      tags == Obj(<< <<"tags", Get(a, "tags")>> >>)
  IN CASE tool = "getContacts" ->
            ghlRequestFetch(key, "/contacts?"
                \o URLSearchParamsToString(GhlListQuery(tool, a)), "GET", Undefined)
       [] tool = "getContact" ->
            ghlRequestFetch(key, "/contacts/" \o cid, "GET", Undefined)
       [] tool = "createContact" ->
            ghlRequestFetch(key, "/contacts", "POST", Get(a, "contactData"))
       [] tool = "updateContact" ->
            ghlRequestFetch(key, "/contacts/" \o cid, "PUT", Get(a, "contactData"))
       [] tool = "addContactTags" ->
            ghlRequestFetch(key, "/contacts/" \o cid \o "/tags", "POST", tags)
       [] tool = "removeContactTags" ->
            ghlRequestFetch(key, "/contacts/" \o cid \o "/tags", "DELETE", tags)
       [] tool = "getTasks" ->
            ghlRequestFetch(key, "/tasks?"
                \o URLSearchParamsToString(GhlListQuery(tool, a)), "GET", Undefined)
       [] tool = "createTask" ->
            ghlRequestFetch(key, "/tasks", "POST", Get(a, "taskData"))
       [] tool = "updateTask" ->
            ghlRequestFetch(key, "/tasks/" \o tid, "PUT", Get(a, "taskData"))
       [] tool = "deleteTask" ->
            ghlRequestFetch(key, "/tasks/" \o tid, "DELETE", Undefined)
       [] tool = "getOpportunities" ->
            ghlRequestFetch(key, "/opportunities?"
                \o URLSearchParamsToString(GhlListQuery(tool, a)), "GET", Undefined)
       [] tool = "createOpportunity" ->
            ghlRequestFetch(key, "/opportunities", "POST",
                            Get(a, "opportunityData"))
       [] tool = "getPipelines" ->
            ghlRequestFetch(key, "/pipelines", "GET", Undefined)
       [] tool = "createCalendarEvent" ->
            ghlRequestFetch(key, "/calendars/events", "POST", Get(a, "eventData"))
       [] OTHER -> ghlRequestFetch(key, "/calendars", "GET", Undefined)

\* ----- Hubspot -----
HubspotBase == "https://api.hubapi.com/crm/v3/objects"

\* properties.map(p => `properties=${encodeURIComponent(p)}`).join('&')
PropertiesQuery(properties) ==
  JoinWith([i \in 1..Len(properties.v) |->
              "properties=" \o encodeURIComponent(properties.v[i].v)], "&")

AnyMalformed(strings) == \E i \in 1..Len(strings.v) : Malformed(strings.v[i].v)

HubspotSearchBody(a) ==
  Obj(<< <<"filterGroups",
           Arr(<< Obj(<< <<"filters",
               Arr(<< Obj(<< <<"propertyName", Str("email")>>,
                             <<"operator", Str("CONTAINS_TOKEN")>>,
                             <<"value", Get(a, "query")>> >>) >>)>> >>) >>)>>,
         <<"properties", Get(a, "properties")>>,
         <<"limit", Get(a, "limit")>> >>)

HubspotRequest(tool, a) ==
  LET h == BearerHeaders(Get(a, "apiKey"))
      cid == JsString(Get(a, "contactId"))
      limit == JsString(Get(a, "limit"))
      props == Obj(<< <<"properties", Get(a, "properties")>> >>)
  IN CASE tool \in {"hubspot-list-contacts", "hubspot-list-deals"} ->
            IF AnyMalformed(Get(a, "properties")) THEN BuildThrew(URIError)
            ELSE Built(Request("GET",
                   HubspotBase
                   \o (IF tool = "hubspot-list-deals" THEN "/deals" ELSE "/contacts")
                   \o "?limit=" \o limit \o "&"
                   \o PropertiesQuery(Get(a, "properties")), h, Undefined))
       [] tool = "hubspot-get-contact" ->
            IF AnyMalformed(Get(a, "properties")) THEN BuildThrew(URIError)
            ELSE Built(Request("GET",
                   HubspotBase \o "/contacts/" \o cid \o "?"
                   \o PropertiesQuery(Get(a, "properties")), h, Undefined))
       [] tool = "hubspot-create-contact" ->
            Built(Request("POST", HubspotBase \o "/contacts", h,
                          JSONstringify(props)))
       [] tool = "hubspot-update-contact" ->
            Built(Request("PATCH", HubspotBase \o "/contacts/" \o cid, h,
                          JSONstringify(props)))
       [] OTHER ->
            Built(Request("POST", HubspotBase \o "/contacts/search", h,
                          JSONstringify(HubspotSearchBody(a))))

\* ----- Keap -----
KeapBase == "https://api.infusionsoft.com/crm/rest/v1"

\* fields.join(',')
FieldsQuery(fields) ==
  JoinWith([i \in 1..Len(fields.v) |-> fields.v[i].v], ",")

\* query.includes('@') ? `email=...` : `given_name=...`
SearchParam(query) ==
  IF Contains(query, "@") THEN "email=" \o encodeURIComponent(query)
  ELSE "given_name=" \o encodeURIComponent(query)

KeapRequest(tool, a) ==
  LET h == BearerHeaders(Get(a, "apiKey"))
      cid == JsString(Get(a, "contactId"))
      tail == "limit=" \o JsString(Get(a, "limit")) \o "&fields="
              \o FieldsQuery(Get(a, "fields"))
  IN CASE tool = "keap-list-contacts" ->
            Built(Request("GET", KeapBase \o "/contacts?" \o tail, h, Undefined))
       [] tool = "keap-get-contact" ->
            Built(Request("GET", KeapBase \o "/contacts/" \o cid \o "?fields="
                          \o FieldsQuery(Get(a, "fields")), h, Undefined))
       [] tool = "keap-create-contact" ->
            Built(Request("POST", KeapBase \o "/contacts", h,
                          JSONstringify(Get(a, "contact"))))
       [] tool = "keap-update-contact" ->
            Built(Request("PATCH", KeapBase \o "/contacts/" \o cid, h,
                          JSONstringify(Get(a, "contact"))))
       [] tool = "keap-search-contacts" ->
            IF Get(a, "query").t # "string"
            THEN BuildThrew(JsError("TypeError",
                   "Cannot read properties of " \o JsString(Get(a, "query"))
                   \o " (reading 'includes')"))
            ELSE IF Malformed(Get(a, "query").v) THEN BuildThrew(URIError)
            ELSE Built(Request("GET", KeapBase \o "/contacts?"
                          \o SearchParam(Get(a, "query").v) \o "&" \o tail,
                          h, Undefined))
       [] OTHER ->
            Built(Request("GET", KeapBase \o "/opportunities?" \o tail, h,
                          Undefined))

\* ----- FreshWorks -----
\* createApiClient(apiKey, baseUrl) and one method call of the client.
createApiClient(apiKey, baseUrl, method, path, params, payload) ==
  Request(method, AxiosBuildURL(baseUrl \o path, params), BearerHeaders(apiKey),
          JSONstringify(payload))

FreshdeskBase(a) ==
  "https://" \o JsString(Get(a, "subdomain")) \o ".freshdesk.com/api/v2"
FreshchatBase(a) == "https://" \o JsString(Get(a, "domain")) \o "/v2"

\* if (x) payload[key] = x
PutIf(o, key, x) == IF Truthy(x) THEN Put(o, key, x) ELSE o

\* Object.entries(updateData), the fields with value !== undefined.
UpdateTicketPayload(a) ==
  Obj(SelectSeq(a.v, LAMBDA q :
        q[1] \notin {"apiKey", "subdomain", "ticketId"}
        /\ q[2].t # "undefined"))

CreateContactPayload(a) ==
  LET base == PutIf(PutIf(PutIf(PutIf(
                Obj(<< <<"name", Get(a, "name")>>, <<"email", Get(a, "email")>> >>),
                "phone", Get(a, "phone")),
                "mobile", Get(a, "mobilePhone")),
                "twitter_id", Get(a, "twitterId")),
                "description", Get(a, "description"))
  IN IF Truthy(Get(a, "companyName"))
     THEN Put(Put(base, "company_id", Null), "other_companies",
              Arr(<< Obj(<< <<"name", Get(a, "companyName")>> >>) >>))
     ELSE base

UpdateContactPayload(a) ==
  PutIf(PutIf(PutIf(PutIf(PutIf(PutIf(Obj(<<>>),
    "name", Get(a, "name")),
    "email", Get(a, "email")),
    "phone", Get(a, "phone")),
    "mobile", Get(a, "mobilePhone")),
    "twitter_id", Get(a, "twitterId")),
    "description", Get(a, "description"))

FreshworksRequest(tool, a) ==
  LET key == Get(a, "apiKey")
      none == Obj(<<>>)
      tid == JsString(Get(a, "ticketId"))
      cid == JsString(Get(a, "contactId"))
      conv == JsString(Get(a, "conversationId"))
  IN CASE tool = "freshdesk-list-tickets" ->
            createApiClient(key, FreshdeskBase(a), "GET", "/tickets",
              PutIf(Obj(<< <<"page", Get(a, "page")>>,
                           <<"per_page", Get(a, "perPage")>> >>),
                    "filter", Get(a, "filter")), Undefined)
       [] tool = "freshdesk-get-ticket" ->
            createApiClient(key, FreshdeskBase(a), "GET", "/tickets/" \o tid,
                            none, Undefined)
       [] tool = "freshdesk-create-ticket" ->
            createApiClient(key, FreshdeskBase(a), "POST", "/tickets", none,
              Obj(<< <<"subject", Get(a, "subject")>>,
                     <<"description", Get(a, "description")>>,
                     <<"email", Get(a, "email")>>,
                     <<"priority", Get(a, "priority")>>,
                     <<"status", Get(a, "status")>>,
                     <<"tags", Get(a, "tags")>> >>))
       [] tool = "freshdesk-update-ticket" ->
            createApiClient(key, FreshdeskBase(a), "PUT", "/tickets/" \o tid,
                            none, UpdateTicketPayload(a))
       [] tool = "freshdesk-add-note" ->
            createApiClient(key, FreshdeskBase(a), "POST",
              "/tickets/" \o tid \o "/notes", none,
              Obj(<< <<"body", Get(a, "body")>>,
                     <<"private", Get(a, "isPrivate")>> >>))
       [] tool = "freshdesk-list-contacts" ->
            createApiClient(key, FreshdeskBase(a), "GET", "/contacts",
              Obj(<< <<"page", Get(a, "page")>>,
                     <<"per_page", Get(a, "perPage")>> >>), Undefined)
       [] tool = "freshdesk-get-contact" ->
            createApiClient(key, FreshdeskBase(a), "GET", "/contacts/" \o cid,
                            none, Undefined)
       [] tool = "freshdesk-create-contact" ->
            createApiClient(key, FreshdeskBase(a), "POST", "/contacts", none,
                            CreateContactPayload(a))
       [] tool = "freshdesk-update-contact" ->
            createApiClient(key, FreshdeskBase(a), "PUT", "/contacts/" \o cid,
                            none, UpdateContactPayload(a))
       [] tool = "freshchat-list-conversations" ->
            createApiClient(key, FreshchatBase(a), "GET", "/conversations",
              PutIf(PutIf(Obj(<< <<"page", Get(a, "page")>>,
                                 <<"items_per_page", Get(a, "itemsPerPage")>> >>),
                          "assignee_id", Get(a, "assigneeId")),
                    "status", Get(a, "status")), Undefined)
       [] tool = "freshchat-get-conversation" ->
            createApiClient(key, FreshchatBase(a), "GET",
                            "/conversations/" \o conv, none, Undefined)
       [] OTHER ->
            createApiClient(key, FreshchatBase(a), "POST",
              "/conversations/" \o conv \o "/messages", none,
              Obj(<< <<"actor_type", Get(a, "actorType")>>,
                     <<"actor_id", Get(a, "actorId")>>,
                     <<"message_type", Get(a, "messageType")>>,
                     <<"message", Obj(<< <<"type", Str("text")>>,
                                         <<"text", Get(a, "message")>> >>)>> >>))

\* ----- Pipedrive -----
\* The value of process.env.PIPEDRIVE_API_TOKEN in a configured environment;
\* apiClient.authentications['api_key'] sends the key it holds as the query
\* parameter api_token.
PIPEDRIVE_API_TOKEN == "env-token"
PipedriveBase == "https://api.pipedrive.com/v1"

PipedriveRequest(tool, a) ==
  LET auth == "api_token="
              \o encodeURIComponent(JsString(Get(apiClient, "apiKey")))
      path ==
        CASE tool = "getAllPersons" -> "/persons?"
          [] tool = "getPersonByID" ->
               "/persons/" \o JsString(Get(a, "personId")) \o "?"
          [] tool = "searchPersons" ->
               "/persons/search?term=" \o encodeURIComponent(JsString(Get(a, "term")))
               \o "&"
          [] tool = "getAllOrganizations" -> "/organizations?"
          [] tool = "getOrganizationByID" ->
               "/organizations/" \o JsString(Get(a, "organizationId")) \o "?"
          [] OTHER ->
               "/organizations/search?term="
               \o encodeURIComponent(JsString(Get(a, "term"))) \o "&"
  IN Request("GET", PipedriveBase \o path \o auth, NoHeaders, Undefined)

\* The request the handler of `tool` builds from its validated arguments, or
\* the error thrown while building it (before any HTTP client is called).
BuildRequest(tool, a) ==
  CASE ServerOf(tool) = "ghl" -> Built(GhlRequest(tool, a))
    [] ServerOf(tool) = "hubspot" -> HubspotRequest(tool, a)
    [] ServerOf(tool) = "keap" -> KeapRequest(tool, a)
    [] ServerOf(tool) = "freshworks" -> Built(FreshworksRequest(tool, a))
    [] OTHER -> Built(PipedriveRequest(tool, a))

(***************************************************************************)
(* Envelopes and handler results.  A success Envelope has no isError       *)
(* field; its text is a JavaScript value (JSON.stringify may give          *)
(* undefined).                                                             *)
(***************************************************************************)
Success(text) == [content |-> << [type |-> "text", text |-> text] >>]
\* Variant of Failure: the Envelope without its isError field.
FailureUnmarked(text) == [content |-> << [type |-> "text", text |-> text] >>]

Failure(text) ==
  [content |-> << [type |-> "text", text |-> text] >>, isError |-> TRUE]

IsError(env) == "isError" \in DOMAIN env /\ env.isError
TextOf(env) == env.content[1].text

\* What a handler call ends with: an Envelope returned, or a value raised.
Returned(env) == [raised |-> FALSE, env |-> env, error |-> Undefined]
Raised(error) == [raised |-> TRUE, env |-> Success(Undefined), error |-> error]

\* What an awaited call ends with: a value, or a value thrown.
Got(x) == [threw |-> FALSE, v |-> x, error |-> Undefined]
Threw(error) == [threw |-> TRUE, v |-> Undefined, error |-> error]

Nullish(x) == x.t \in {"undefined", "null"}

\* x.k for x neither null nor undefined.
Member(x, k) ==
  CASE x.t = "object" -> Get(x, k)
    [] x.t = "error" /\ k = "message" -> x.message
    [] x.t = "error" /\ k = "response" -> x.response
    [] OTHER -> Undefined

\* The TypeError of reading property k of null or undefined.
TypeError(x, k) ==
  JsError("TypeError", "Cannot read properties of " \o JsString(x)
                       \o " (reading '" \o k \o "')")

(***************************************************************************)
(* Responses, as the HTTP client sees them: a transport failure, or a      *)
(* status line followed by a body whose reading may itself fail.           *)
(***************************************************************************)
NetworkError(message) ==
  [kind |-> "neterr", message |-> message, status |-> 0, statusText |-> "",
   body |-> "", bodyFails |-> FALSE]
HttpResponse(status, statusText, body) ==
  [kind |-> "http", message |-> "", status |-> status,
   statusText |-> statusText, body |-> body, bodyFails |-> FALSE]
BrokenBody(status, statusText, message) ==
  [kind |-> "http", message |-> message, status |-> status,
   statusText |-> statusText, body |-> "", bodyFails |-> TRUE]

\* response.ok, and axios' default validateStatus.
Ok(r) == r.status \in 200..299

\* The message of the SyntaxError JSON.parse throws for a text whose first
\* token is not the start of a JSON value (the replies of the model).
SyntaxErrorMessage(text) ==
  LET s == SkipWs(text) IN
  IF s = "" THEN "Unexpected end of JSON input"
  ELSE "Unexpected token " \o Head(s) \o " in JSON at position "
       \o NumberToString(Len(text) - Len(s))

\* node-fetch: response.json()
ResponseJson(req, r) ==
  IF r.bodyFails
  THEN Threw(JsError("FetchError",
         "Invalid response body while trying to fetch " \o req.url \o ": "
         \o r.message))
  ELSE LET Json(p) ==
             IF p.ok THEN Got(p.v)
             ELSE Threw(JsError("FetchError",
                    "invalid json response body at " \o req.url \o " reason: "
                    \o SyntaxErrorMessage(r.body)))
       IN Json(JSONparse(r.body))

\* node-fetch: response.text()
ResponseText(req, r) ==
  IF r.bodyFails
  THEN Threw(JsError("FetchError",
         "Invalid response body while trying to fetch " \o req.url \o ": "
         \o r.message))
  ELSE Got(Str(r.body))

\* node-fetch: fetch() rejects on a transport failure.
FetchFailed(req, r) ==
  JsError("FetchError",
          "request to " \o req.url \o " failed, reason: " \o r.message)

(***************************************************************************)
(* GoHighLevel handlers.                                                   *)
(***************************************************************************)
\* ghlRequest after its fetch: the data returned, or the error thrown.
ghlRequest(req, r) ==
  LET Checked(data) ==
        IF data.threw THEN data
        ELSE IF ~Ok(r)
        THEN IF Nullish(data.v) THEN Threw(TypeError(data.v, "message"))
             ELSE Threw(JsError("Error", "GoHighLevel API error: "
                    \o JsString(IF Truthy(Member(data.v, "message"))
                                THEN Member(data.v, "message")
                                ELSE Str(r.statusText))))
        ELSE data
  IN IF r.kind = "neterr" THEN Threw(FetchFailed(req, r))
     ELSE Checked(ResponseJson(req, r))

\* Variant of GhlCatch: a fixed text in place of the caught message.
GhlCatchGeneric(error) ==
  [raised |-> FALSE,
   env |-> [content |-> << [type |-> "text",
                            text |-> [t |-> "string", v |-> "Error: request failed"]] >>,
            isError |-> TRUE],
   error |-> Undefined]

\* catch (error: any) { ... text: `Error: ${error.message}` ... }
GhlCatch(error) ==
  IF Nullish(error) THEN Raised(TypeError(error, "message"))
  ELSE Returned(Failure(Str("Error: " \o JsString(Member(error, "message")))))

GhlHandler(tool, a, req, r) ==
  LET Try(data) ==
        IF data.threw THEN GhlCatch(data.error)
        ELSE Returned(Success(JSONstringify2(data.v)))
  IN Try(ghlRequest(req, r))

(***************************************************************************)
(* Hubspot and Keap handlers: the same code with a phrase per tool.        *)
(***************************************************************************)
ErrorPhrase(tool) ==
  CASE tool = "hubspot-list-contacts" -> "Error fetching Hubspot contacts"
    [] tool = "hubspot-get-contact" -> "Error fetching Hubspot contact"
    [] tool = "hubspot-create-contact" -> "Error creating Hubspot contact"
    [] tool = "hubspot-update-contact" -> "Error updating Hubspot contact"
    [] tool = "hubspot-search-contacts" -> "Error searching Hubspot contacts"
    [] tool = "hubspot-list-deals" -> "Error fetching Hubspot deals"
    [] tool = "keap-list-contacts" -> "Error fetching Keap contacts"
    [] tool = "keap-get-contact" -> "Error fetching Keap contact"
    [] tool = "keap-create-contact" -> "Error creating Keap contact"
    [] tool = "keap-update-contact" -> "Error updating Keap contact"
    [] tool = "keap-search-contacts" -> "Error searching Keap contacts"
    [] OTHER -> "Error fetching Keap opportunities"

\* catch (error) { ... error instanceof Error ? error.message : String(error) }
FetchCatch(tool, error) ==
  Returned(Failure(Str(ErrorPhrase(tool) \o ": "
    \o (IF error.t = "error" THEN JsString(error.message)
        ELSE JsString(error)))))

FetchHandler(tool, a, req, r) ==
  LET NotOk(errorText) ==
        IF errorText.threw THEN FetchCatch(tool, errorText.error)
        ELSE Returned(Failure(Str(ErrorPhrase(tool) \o ": "
               \o NumberToString(r.status) \o " " \o r.statusText \o "\n"
               \o errorText.v.v)))
      IsOk(data) ==
        IF data.threw THEN FetchCatch(tool, data.error)
        ELSE Returned(Success(JSONstringify2(data.v)))
  IN IF r.kind = "neterr" THEN FetchCatch(tool, FetchFailed(req, r))
     ELSE IF ~Ok(r) THEN NotOk(ResponseText(req, r))
     ELSE IsOk(ResponseJson(req, r))

(***************************************************************************)
(* FreshWorks handlers (axios).                                            *)
(***************************************************************************)
AxiosError(message, response) ==
  [t |-> "error", name |-> "AxiosError", message |-> Str(message),
   response |-> response]

\* The axios call: response.data is the parsed body, or the body text when
\* it is not JSON; a status outside 2xx rejects with error.response set.
AxiosCall(req, r) ==
  IF r.kind = "neterr" THEN Threw(AxiosError(r.message, Undefined))
  ELSE IF r.bodyFails THEN Threw(AxiosError(r.message, Undefined))
  ELSE LET Settle(response) ==
             IF Ok(r) THEN Got(response)
             ELSE Threw(AxiosError("Request failed with status code "
                                   \o NumberToString(r.status), response))
           Transform(p) ==
             Settle(Obj(<< <<"status", Num(r.status)>>,
                           <<"data", IF p.ok THEN p.v ELSE Str(r.body)>> >>))
       IN Transform(JSONparse(r.body))

\* Variant of handleApiError: the message of the error is reported whether
\* or not the error carries a response.
handleApiErrorPlain(error) ==
  [threw |-> FALSE,
   v |-> [t |-> "string",
          v |-> "Error: " \o (IF error.t = "error" /\ error.message.v # ""
                              THEN error.message.v ELSE "Unknown error")],
   error |-> [t |-> "undefined"]]

\* handleApiError(error): the text, or the TypeError of reading error.response.
handleApiError(error) ==
  IF Nullish(error) THEN Threw(TypeError(error, "response"))
  ELSE IF Truthy(Member(error, "response"))
  THEN LET status == Member(Member(error, "response"), "status")
           data == Member(Member(error, "response"), "data") IN
       Got(Str("API Error (" \o JsString(status) \o "): "
               \o JsString(JSONstringify(data))))
  ELSE Got(Str("Error: "
         \o JsString(IF Truthy(Member(error, "message"))
                     THEN Member(error, "message")
                     ELSE Str("Unknown error"))))

FreshworksCatch(error) ==
  LET Reply(text) ==
        IF text.threw THEN Raised(text.error) ELSE Returned(Failure(text.v))
  IN Reply(handleApiError(error))

\* Variant of Confirmation: no tool puts a line before the JSON.
ConfirmationNone(tool, a, data) == ""

\* The confirmation line of a mutating tool, "" for a read tool.
Confirmation(tool, a, data) ==
  CASE tool = "freshdesk-create-ticket" ->
         "Ticket created successfully with ID: " \o JsString(Member(data, "id"))
    [] tool = "freshdesk-update-ticket" ->
         "Ticket " \o JsString(Get(a, "ticketId")) \o " updated successfully"
    [] tool = "freshdesk-add-note" ->
         "Note added successfully to ticket " \o JsString(Get(a, "ticketId"))
    [] tool = "freshdesk-create-contact" ->
         "Contact created successfully with ID: " \o JsString(Member(data, "id"))
    [] tool = "freshdesk-update-contact" ->
         "Contact " \o JsString(Get(a, "contactId")) \o " updated successfully"
    [] tool = "freshchat-send-message" ->
         "Message sent successfully to conversation "
         \o JsString(Get(a, "conversationId"))
    [] OTHER -> ""

ReadsId(tool) == tool \in {"freshdesk-create-ticket", "freshdesk-create-contact"}

FreshworksHandler(tool, a, req, r) ==
  LET Reply(line, json) ==
        IF line = "" THEN Returned(Success(json))
        ELSE Returned(Success(Str(line \o "\n\n" \o JsString(json))))
      Try(response) ==
        IF response.threw THEN FreshworksCatch(response.error)
        ELSE LET data == Get(response.v, "data") IN
             IF ReadsId(tool) /\ Nullish(data)
             THEN FreshworksCatch(TypeError(data, "id"))
             ELSE Reply(Confirmation(tool, a, data), JSONstringify2(data))
  IN Try(AxiosCall(req, r))

(***************************************************************************)
(* Pipedrive handlers.                                                     *)
(***************************************************************************)
\* typeof error === 'object' && error !== null && 'message' in error
\*   && typeof error.message === 'string'
isErrorWithMessage(error) ==
  /\ error.t \in {"object", "error", "array"}
  /\ \/ error.t = "error"
     \/ error.t = "object" /\ HasKey(error, "message")
  /\ Member(error, "message").t = "string"

\* Variant of getErrorMessage: error.message is read without the guard.
getErrorMessageUnguarded(error) ==
  IF Nullish(error) THEN Threw(TypeError(error, "message"))
  ELSE Got(JsString(Member(error, "message")))

\* The message, or the TypeError String(error) raises for an object that
\* cannot be converted to a primitive value.
getErrorMessage(error) ==
  IF isErrorWithMessage(error) THEN Got(Member(error, "message").v)
  ELSE IF IsBare(error)
  THEN Threw(JsError("TypeError", "Cannot convert object to primitive value"))
  ELSE Got(JsString(error))

\* The API method of the Pipedrive client: the parsed body, or an error
\* whose message is the status text, the parse error or the transport error.
PipedriveCall(req, r) ==
  IF r.kind = "neterr" THEN Threw(JsError("Error", r.message))
  ELSE IF r.bodyFails THEN Threw(JsError("Error", r.message))
  ELSE IF ~Ok(r) THEN Threw(JsError("Error", r.statusText))
  ELSE LET Json(p) ==
             IF p.ok THEN Got(p.v)
             ELSE Threw(JsError("SyntaxError", SyntaxErrorMessage(r.body)))
       IN Json(JSONparse(r.body))

PipedrivePhrase(tool, a) ==
  CASE tool = "getAllPersons" -> "Error fetching persons"
    [] tool = "getPersonByID" ->
         "Error fetching person " \o JsString(Get(a, "personId"))
    [] tool = "searchPersons" -> "Error searching persons"
    [] tool = "getAllOrganizations" -> "Error fetching organizations"
    [] tool = "getOrganizationByID" ->
         "Error fetching organization " \o JsString(Get(a, "organizationId"))
    [] OTHER -> "Error searching organizations"

PipedriveCatch(tool, a, error) ==
  LET Phrased(message) ==
        IF message.threw THEN Raised(message.error)
        ELSE Returned(Failure(Str(PipedrivePhrase(tool, a) \o ": "
                                  \o message.v)))
  IN Phrased(getErrorMessage(error))

PipedriveHandler(tool, a, req, r) ==
  LET Try(response) ==
        IF response.threw THEN PipedriveCatch(tool, a, response.error)
        ELSE IF Nullish(response.v)
        THEN PipedriveCatch(tool, a, TypeError(response.v, "data"))
        ELSE Returned(Success(JSONstringify2(Member(response.v, "data"))))
  IN Try(PipedriveCall(req, r))

(***************************************************************************)
(* The handler of a tool, in its two parts: up to its HTTP call, and from  *)
(* the outcome of that call to the Envelope.                               *)
(***************************************************************************)
\* The catch block of the handler, run on a value thrown in its try block.
Catch(tool, a, error) ==
  CASE ServerOf(tool) = "ghl" -> GhlCatch(error)
    [] ServerOf(tool) \in {"hubspot", "keap"} -> FetchCatch(tool, error)
    [] ServerOf(tool) = "freshworks" -> FreshworksCatch(error)
    [] OTHER -> PipedriveCatch(tool, a, error)

Handler(tool, a, req, r) ==
  CASE ServerOf(tool) = "ghl" -> GhlHandler(tool, a, req, r)
    [] ServerOf(tool) \in {"hubspot", "keap"} -> FetchHandler(tool, a, req, r)
    [] ServerOf(tool) = "freshworks" -> FreshworksHandler(tool, a, req, r)
    [] OTHER -> PipedriveHandler(tool, a, req, r)

\* The servers whose handler awaits the body after the status line (fetch);
\* axios and the Pipedrive client read the body inside the one call.
ReadsBodyItself(tool) == ServerOf(tool) \in {"ghl", "hubspot", "keap"}

(***************************************************************************)
(* The tool registry's dispatch, McpServer of the host SDK: the input is   *)
(* validated against the registered schema before the handler runs; a      *)
(* validation failure and a value raised by the handler become an error    *)
(* Envelope.                                                               *)
(***************************************************************************)
Validate(tool, input) == ZodObject(Schema(tool), input)

InvalidArguments(tool, issue) ==
  Failure(Str("Invalid arguments for tool " \o tool \o ": " \o issue))

Wrapped(result) ==
  IF result.raised
  THEN Failure(Str(IF Nullish(result.error) THEN JsString(result.error)
                   ELSE JsString(Member(result.error, "message"))))
  ELSE result.env

(***************************************************************************)
(* The inputs the callers of the model send.  For each tool: an input with *)
(* every field, one with the required fields only, one per required field  *)
(* with that field left out, and the inputs of Special.                    *)
(***************************************************************************)
IsRequired(f) == ~f.opt

RECURSIVE SampleObject(_, _)
RECURSIVE SampleValue(_, _)

\* A valid value for field f.
SampleValue(f, all) ==
  CASE f.kind = "string" -> Str(f.name \o "1")
    [] f.kind = "email" -> Str("a@b.com")
    [] f.kind = "number" ->
         Num(IF f.range = {} THEN 7 ELSE CHOOSE n \in f.range : n + 1 \notin f.range)
    [] f.kind = "boolean" -> Bool(TRUE)
    [] f.kind = "enum" -> Str(CHOOSE e \in f.vals : TRUE)
    [] f.kind = "strings" -> Arr(<< Str("email"), Str("x y") >>)
    [] f.kind = "record" -> Obj(<< <<"k", Num(1)>> >>)
    [] f.kind = "stringrecord" -> Obj(<< <<"email", Str("a@b.com")>> >>)
    [] f.kind = "objects" -> Arr(<< SampleObject(f.shape, all) >>)
    [] OTHER -> SampleObject(f.shape, all)

\* An object with a valid value for every field of the shape (all), or for
\* its required fields only.
SampleObject(shape, all) ==
  LET fs == SelectSeq(shape, LAMBDA f : all \/ IsRequired(f)) IN
  Obj([i \in 1..Len(fs) |-> <<fs[i].name, SampleValue(fs[i], all)>>])

Omit(o, k) == Obj(SelectSeq(o.v, LAMBDA q : q[1] # k))

RequiredNames(shape) ==
  {shape[i].name : i \in {j \in 1..Len(shape) : IsRequired(shape[j])}}

With(o, pairs) ==
  LET Step[i \in 0..Len(pairs)] ==
        IF i = 0 THEN o ELSE Put(Step[i - 1], pairs[i][1], pairs[i][2])
  IN Step[Len(pairs)]

\* Inputs at the edges of the tool's schema and of its request: `min` is
\* the input with the required fields only.
Special(tool, min) ==
  CASE tool = "getContacts" ->
         { With(min, << <<"query", Str("a b&c")>>, <<"page", Num(0)>>,
                        <<"limit", Num(0)>> >>),
           With(min, << <<"query", Str("")>>, <<"page", Num(2)>> >>),
           With(min, << <<"apiKey", Str("key2")>> >>) }
    [] tool = "getContact" ->
         { With(min, << <<"contactId", Str("a/b?c#d")>> >>),
           With(min, << <<"apiKey", Str("key2")>> >>) }
    [] tool = "createContact" ->
         { With(min, << <<"contactData", Obj(<< <<"email", Str("a@b.com")>> >>)>> >>),
           With(min, << <<"contactData", Obj(<< <<"phone", Str("555")>> >>)>> >>),
           With(min, << <<"contactData", Obj(<< <<"firstName", Str("Ann")>> >>)>> >>),
           With(min, << <<"contactData", Obj(<< <<"email", Str("nobody")>> >>)>> >>),
           With(min, << <<"contactData", Obj(<<>>)>> >>),
           With(min, << <<"contactData",
                          Obj(<< <<"phone", Str("")>>,
                                 <<"firstName", Str("Ann")>> >>)>> >>) }
    [] tool = "getTasks" -> { With(min, << <<"page", Num(0)>> >>) }
    [] tool = "getOpportunities" ->
         { With(min, << <<"pipelineId", Str("")>>, <<"stageId", Str("s 1")>>,
                        <<"limit", Num(0)>> >>) }
    [] tool = "deleteTask" -> { With(min, << <<"taskId", Str("../contacts/7")>> >>) }
    [] tool = "hubspot-list-contacts" ->
         { With(min, << <<"properties", Arr(<< Str(LoneSurrogate) >>)>> >>),
           With(min, << <<"properties", Arr(<<>>)>> >>),
           With(min, << <<"apiKey", Str("key2")>> >>) }
    [] tool = "hubspot-get-contact" ->
         { With(min, << <<"contactId", Str("a/b?c")>> >>),
           With(min, << <<"apiKey", Str("key2")>> >>) }
    [] tool = "keap-get-contact" ->
         { With(min, << <<"contactId", Str("a/b?c")>> >>) }
    [] tool = "keap-search-contacts" ->
         { With(min, << <<"query", Str("a@b.com")>> >>),
           With(min, << <<"query", Str("bob smith")>> >>),
           With(min, << <<"query", Str(LoneSurrogate)>> >>),
           With(min, << <<"query", Str("a@b.com")>>,
                        <<"fields", Arr(<< Str("id&given_name=x") >>)>> >>),
           With(min, << <<"apiKey", Str("key2")>> >>) }
    [] tool = "keap-list-contacts" ->
         { With(min, << <<"fields", Arr(<< Str("a&b=c") >>)>> >>),
           With(min, << <<"apiKey", Str("key2")>> >>) }
    [] tool = "freshdesk-list-tickets" ->
         { With(min, << <<"filter", Str("")>>, <<"page", Num(0)>> >>),
           With(min, << <<"apiKey", Str("key2")>> >>) }
    [] tool = "freshdesk-get-ticket" ->
         { With(min, << <<"subdomain", Str("evil.com/x#")>> >>) }
    [] tool = "freshdesk-create-ticket" ->
         { With(min, << <<"priority", Num(9)>> >>),
           With(min, << <<"email", Str("nobody")>> >>) }
    [] tool = "freshdesk-update-ticket" ->
         { With(min, << <<"subject", Str("")>> >>) }
    [] tool = "freshdesk-create-contact" ->
         { With(min, << <<"phone", Str("")>>, <<"companyName", Str("")>> >>),
           With(min, << <<"companyName", Str("Acme")>> >>) }
    [] tool = "freshdesk-update-contact" ->
         { With(min, << <<"name", Str("")>>, <<"phone", Str("555")>> >>) }
    [] tool = "freshchat-list-conversations" ->
         { With(min, << <<"status", Str("open")>> >>),
           With(min, << <<"assigneeId", Str("")>> >>) }
    [] tool = "freshchat-get-conversation" ->
         { With(min, << <<"conversationId", Str("a/b?c")>> >>) }
    [] tool = "searchPersons" -> { With(min, << <<"term", Str("a b&c")>> >>) }
    [] tool = "getCalendars" -> { With(min, << <<"apiKey", Str("")>> >>) }
    [] OTHER -> {}

InputsOf(tool, shape) ==
  LET Around(min) ==
        {min} \cup {Omit(min, k) : k \in RequiredNames(shape)}
          \cup Special(tool, min)
  IN {SampleObject(shape, TRUE)} \cup Around(SampleObject(shape, FALSE))

Inputs(tool) == InputsOf(tool, Schema(tool))

(***************************************************************************)
(* The vendor backends.  A reply is chosen per request; Answer gives the   *)
(* response a reply stands for (the echo reply depends on the request).    *)
(***************************************************************************)
Replies ==
  {"refused", "silent", "id42", "echo", "html", "wrapped", "null",
   "notfound", "failed", "void", "crashed", "cutoff"}

\* The posted body (an empty object when there is none) with id "c1" added.
Echo(req) ==
  LET sent == IF req.body.t = "undefined" THEN Obj(<<>>)
              ELSE JSONparse(req.body.v).v
  IN Compact(Put(sent, "id", Str("c1")))

Answer(reply, req) ==
  CASE reply = "refused" -> NetworkError("connect ECONNREFUSED")
    [] reply = "silent" -> NetworkError("")
    [] reply = "id42" -> HttpResponse(200, "OK", "{\"id\": 42}")
    [] reply = "echo" -> HttpResponse(200, "OK", Echo(req))
    [] reply = "html" -> HttpResponse(200, "OK", "<html>")
    [] reply = "wrapped" ->
         HttpResponse(200, "OK", "{\"success\":true,\"data\":{\"id\":42}}")
    [] reply = "null" -> HttpResponse(200, "OK", "null")
    [] reply = "notfound" ->
         HttpResponse(404, "Not Found", "{\"message\":\"not found\"}")
    [] reply = "failed" -> HttpResponse(500, "Internal Server Error", "{}")
    [] reply = "void" -> HttpResponse(503, "Service Unavailable", "null")
    [] reply = "crashed" ->
         HttpResponse(502, "Bad Gateway", "upstream failure")
    [] OTHER -> BrokenBody(200, "OK", "Premature close")

(***************************************************************************)
(* The invocations.                                                        *)
(***************************************************************************)
\* The number of invocations the model follows.
Invocations == 2
Slots == 1..Invocations

(***************************************************************************)
(* State, with `calls` above.  Each slot carries one tool invocation from  *)
(* the call to the Envelope.                                               *)
(***************************************************************************)
VARIABLES
  pc,       \* slot -> "off", "idle", "awaiting" (the HTTP call), "reading"
            \*         (the response body), "done"
  tool,     \* slot -> the tool invoked
  input,    \* slot -> the input of the invocation
  args,     \* slot -> the validated arguments the handler received
  req,      \* slot -> the request of the handler's HTTP call
  resp,     \* slot -> the response of that call
  out,      \* slot -> the Envelopes the caller has received
  escaped,  \* slot -> whether a value was raised out of the handler
  answers,  \* the replies the backends have given: a set of <<request, reply>>
  pin,      \* <<tool, input>> when every slot repeats one invocation, else <<>>
  environment,  \* process.env.PIPEDRIVE_API_TOKEN
  process   \* server -> its process: the phase of the startup script, the
            \*           tools and prompts registered, the lines on stderr

startup == <<environment, apiClient, process>>

vars ==
  <<pc, tool, input, args, req, resp, calls, out, escaped, answers, pin,
    environment, apiClient, process>>

NoRequest == Request("", "", NoHeaders, Undefined)
NoResponse == NetworkError("")

InitSlots(on) ==
  /\ pc = [i \in Slots |-> IF i \in on THEN "idle" ELSE "off"]
  /\ tool = [i \in Slots |-> ""]
  /\ input = [i \in Slots |-> Undefined]
  /\ args = [i \in Slots |-> Undefined]
  /\ req = [i \in Slots |-> NoRequest]
  /\ resp = [i \in Slots |-> NoResponse]
  /\ calls = [i \in Slots |-> 0]
  /\ out = [i \in Slots |-> <<>>]
  /\ escaped = [i \in Slots |-> FALSE]
  /\ answers = {}

(***************************************************************************)
(* The startup script of each server: the statements at the top level of  *)
(* its source, in order.                                                   *)
(***************************************************************************)
\* The server.tool(...) and server.prompt(...) calls of each server, in
\* source order, as <<kind, name>>.
Registrations(s) ==
  CASE s = "pipedrive" ->
         << <<"tool", "getAllPersons">>, <<"tool", "getPersonByID">>,
            <<"tool", "searchPersons">>, <<"tool", "getAllOrganizations">>,
            <<"tool", "getOrganizationByID">>,
            <<"tool", "searchOrganizations">>,
            <<"prompt", "getAllPersons">>, <<"prompt", "analysePersons">> >>
    [] s = "freshworks" ->
         << <<"tool", "freshdesk-list-tickets">>,
            <<"tool", "freshdesk-get-ticket">>,
            <<"tool", "freshdesk-create-ticket">>,
            <<"tool", "freshdesk-update-ticket">>,
            <<"tool", "freshdesk-add-note">>,
            <<"tool", "freshdesk-list-contacts">>,
            <<"tool", "freshdesk-get-contact">>,
            <<"tool", "freshdesk-create-contact">>,
            <<"tool", "freshdesk-update-contact">>,
            <<"tool", "freshchat-list-conversations">>,
            <<"tool", "freshchat-get-conversation">>,
            <<"tool", "freshchat-send-message">> >>
    [] s = "ghl" ->
         << <<"tool", "getContacts">>, <<"tool", "getContact">>,
            <<"tool", "createContact">>, <<"tool", "updateContact">>,
            <<"tool", "addContactTags">>, <<"tool", "removeContactTags">>,
            <<"tool", "getTasks">>, <<"tool", "createTask">>,
            <<"tool", "updateTask">>, <<"tool", "deleteTask">>,
            <<"tool", "getOpportunities">>, <<"tool", "createOpportunity">>,
            <<"tool", "getPipelines">>, <<"tool", "createCalendarEvent">>,
            <<"tool", "getCalendars">> >>
    [] s = "hubspot" ->
         << <<"tool", "hubspot-list-contacts">>,
            <<"tool", "hubspot-get-contact">>,
            <<"tool", "hubspot-create-contact">>,
            <<"tool", "hubspot-update-contact">>,
            <<"tool", "hubspot-search-contacts">>,
            <<"tool", "hubspot-list-deals">> >>
    [] OTHER ->
         << <<"tool", "keap-list-contacts">>, <<"tool", "keap-get-contact">>,
            <<"tool", "keap-create-contact">>, <<"tool", "keap-update-contact">>,
            <<"tool", "keap-search-contacts">>,
            <<"tool", "keap-list-opportunities">> >>

\* The names of the given kind among the first n registrations of s.
Registered(s, kind, n) ==
  LET first == SubSeq(Registrations(s), 1, n)
      ofKind == SelectSeq(first, LAMBDA r : r[1] = kind)
  IN [k \in 1..Len(ofKind) |-> ofKind[k][2]]

\* The line the server writes to stderr once its transport is connected
\* (the FreshWorks server writes to stdout with console.log instead).
RunningLine(s) ==
  CASE s = "pipedrive" -> <<"PipeDrive MCP Server running on stdio">>
    [] s = "ghl" -> <<"GoHighLevel MCP Server running on stdio">>
    [] s = "hubspot" -> <<"Google Maps MCP Server running on stdio">>
    [] s = "keap" -> <<"Keap MCP Server running on stdio">>
    [] OTHER -> <<>>

MissingTokenLine ==
  "ERROR: PIPEDRIVE_API_TOKEN environment variable is required"

\* A process before its first statement, and one that is not followed.
Fresh(phase) == [phase |-> phase, tools |-> <<>>, prompts |-> <<>>, stderr |-> <<>>]

\* A process whose startup script has run to the end.
Serving(s) ==
  [phase |-> "connected",
   tools |-> Registered(s, "tool", Len(Registrations(s))),
   prompts |-> Registered(s, "prompt", Len(Registrations(s))),
   stderr |-> RunningLine(s)]

\* new pipedrive.ApiClient() with authentications['api_key'] set.
NewApiClient(token) == Obj(<< <<"apiKey", token>> >>)

\* Every server is up, in an environment that holds the Pipedrive token.
AllServing ==
  /\ environment = Str(PIPEDRIVE_API_TOKEN)
  /\ apiClient = NewApiClient(Str(PIPEDRIVE_API_TOKEN))
  /\ process = [s \in Servers |-> Serving(s)]

\* One invocation of any tool with any input.
Init == InitSlots({1}) /\ pin = <<>> /\ AllServing

\* One server process is started, in an environment with the token, with
\* an empty token, or without the token.
InitStartup ==
  /\ InitSlots({1}) /\ pin = <<>>
  /\ environment \in {Undefined, Str(""), Str(PIPEDRIVE_API_TOKEN)}
  /\ apiClient = Undefined
  /\ \E s \in Servers :
       process = [x \in Servers |-> IF x = s THEN Fresh("start") ELSE Fresh("off")]

\* Variant of Start: the environment is not looked at.
StartUnchecked(s) ==
  /\ process[s].phase = "start"
  /\ apiClient' = IF s = "pipedrive" THEN NewApiClient(environment) ELSE apiClient
  /\ process' = [process EXCEPT ![s].phase = "registering"]
  /\ UNCHANGED <<pc, tool, input, args, req, resp, calls, out, escaped,
                 answers, pin, environment>>

\* The statements before the first registration: in the Pipedrive server
\* the check of the environment (which ends the process) and the
\* construction of the API client; in every server new McpServer(...).
Start(s) ==
  /\ process[s].phase = "start"
  /\ IF s = "pipedrive" /\ ~Truthy(environment)
     THEN /\ process' = [process EXCEPT ![s].phase = "exited",
                                         ![s].stderr = Append(@, MissingTokenLine)]
          /\ UNCHANGED apiClient
     ELSE /\ apiClient' = IF s = "pipedrive" THEN NewApiClient(environment)
                          ELSE apiClient
          /\ process' = [process EXCEPT ![s].phase = "registering"]
  /\ UNCHANGED <<pc, tool, input, args, req, resp, calls, out, escaped,
                 answers, pin, environment>>

\* The next server.tool(...) or server.prompt(...) call; McpServer throws
\* when the name is registered already, which ends the process.
Register(s) ==
  /\ process[s].phase = "registering"
  /\ \E n \in {Len(process[s].tools) + Len(process[s].prompts) + 1} :
       /\ n <= Len(Registrations(s))
       /\ \E r \in {Registrations(s)[n]} :
            IF r[1] = "tool"
            THEN IF \E k \in DOMAIN process[s].tools : process[s].tools[k] = r[2]
                 THEN process' = [process EXCEPT ![s].phase = "exited"]
                 ELSE process' = [process EXCEPT ![s].tools = Append(@, r[2])]
            ELSE IF \E k \in DOMAIN process[s].prompts : process[s].prompts[k] = r[2]
                 THEN process' = [process EXCEPT ![s].phase = "exited"]
                 ELSE process' = [process EXCEPT ![s].prompts = Append(@, r[2])]
  /\ UNCHANGED <<pc, tool, input, args, req, resp, calls, out, escaped,
                 answers, pin, environment, apiClient>>

\* Variant of Connect: the transport is connected at any point of the
\* registrations.
ConnectEarly(s) ==
  /\ process[s].phase = "registering"
  /\ process' = [process EXCEPT ![s].phase = "connected",
                                ![s].stderr = @ \o RunningLine(s)]
  /\ UNCHANGED <<pc, tool, input, args, req, resp, calls, out, escaped,
                 answers, pin, environment, apiClient>>

\* runServer(), the last statement: server.connect(transport), then the
\* line on stderr.
Connect(s) ==
  /\ process[s].phase = "registering"
  /\ Len(process[s].tools) + Len(process[s].prompts) = Len(Registrations(s))
  /\ process' = [process EXCEPT ![s].phase = "connected",
                                ![s].stderr = @ \o RunningLine(s)]
  /\ UNCHANGED <<pc, tool, input, args, req, resp, calls, out, escaped,
                 answers, pin, environment, apiClient>>

\* Two invocations at once, of any tools with any inputs.
InitConcurrent == InitSlots({1, 2}) /\ pin = <<>> /\ AllServing

\* The same invocation made twice.
InitTwice ==
  /\ InitSlots(Slots)
  /\ pin \in {<<t, in>> : t \in Tools, in \in UNION {Inputs(u) : u \in Tools}}
  /\ pin[2] \in Inputs(pin[1])
  /\ AllServing

\* The handler of slot i ends with `result`: the caller gets its Envelope.
Finish(i, result) ==
  /\ out' = [out EXCEPT ![i] = Append(@, Wrapped(result))]
  /\ escaped' = [escaped EXCEPT ![i] = result.raised]
  /\ pc' = [pc EXCEPT ![i] = "done"]

\* The arguments a with the apiKey of another invocation that has issued a
\* call to the same server, when there is one.
WithCachedKey(i, t, a) ==
  LET others == {j \in Slots \ {i} :
                   calls[j] >= 1 /\ ServerOf(tool[j]) = ServerOf(t)}
  IN IF others = {} THEN a
     ELSE Put(a, "apiKey", Get(args[CHOOSE j \in others : TRUE], "apiKey"))

\* Variant of Invoke: the handler builds its request with the key of the
\* first invocation the server served, kept in a client shared by all.
InvokeCachedKey(i, t, in) ==
  /\ pc[i] = "idle"
  /\ pin = <<>> \/ pin = <<t, in>>
  /\ process[ServerOf(t)].phase = "connected"
  /\ \E k \in DOMAIN process[ServerOf(t)].tools :
       process[ServerOf(t)].tools[k] = t
  /\ tool' = [tool EXCEPT ![i] = t]
  /\ input' = [input EXCEPT ![i] = in]
  /\ \E parsed \in {Validate(t, in)} :
       IF ~parsed.ok
       THEN /\ out' = [out EXCEPT ![i] =
                         Append(@, InvalidArguments(t, parsed.issue))]
            /\ pc' = [pc EXCEPT ![i] = "done"]
            /\ UNCHANGED <<args, req, calls, escaped>>
       ELSE /\ args' = [args EXCEPT ![i] = parsed.v]
            /\ \E built \in {BuildRequest(t, WithCachedKey(i, t, parsed.v))} :
                 IF built.threw
                 THEN /\ Finish(i, Catch(t, parsed.v, built.error))
                      /\ UNCHANGED <<req, calls>>
                 ELSE /\ req' = [req EXCEPT ![i] = built.req]
                      /\ calls' = [calls EXCEPT ![i] = @ + 1]
                      /\ pc' = [pc EXCEPT ![i] = "awaiting"]
                      /\ UNCHANGED <<out, escaped>>
  /\ UNCHANGED <<resp, answers, pin, startup>>

\* tools/call: validation, then the handler up to its HTTP call.
Invoke(i, t, in) ==
  /\ pc[i] = "idle"
  /\ pin = <<>> \/ pin = <<t, in>>
  /\ process[ServerOf(t)].phase = "connected"
  /\ \E k \in DOMAIN process[ServerOf(t)].tools :
       process[ServerOf(t)].tools[k] = t
  /\ tool' = [tool EXCEPT ![i] = t]
  /\ input' = [input EXCEPT ![i] = in]
  /\ \E parsed \in {Validate(t, in)} :
       IF ~parsed.ok
       THEN /\ out' = [out EXCEPT ![i] =
                         Append(@, InvalidArguments(t, parsed.issue))]
            /\ pc' = [pc EXCEPT ![i] = "done"]
            /\ UNCHANGED <<args, req, calls, escaped>>
       ELSE /\ args' = [args EXCEPT ![i] = parsed.v]
            /\ \E built \in {BuildRequest(t, parsed.v)} :
                 IF built.threw
                 THEN /\ Finish(i, Catch(t, parsed.v, built.error))
                      /\ UNCHANGED <<req, calls>>
                 ELSE /\ req' = [req EXCEPT ![i] = built.req]
                      /\ calls' = [calls EXCEPT ![i] = @ + 1]
                      /\ pc' = [pc EXCEPT ![i] = "awaiting"]
                      /\ UNCHANGED <<out, escaped>>
  /\ UNCHANGED <<resp, answers, pin, startup>>

\* The replies the backend may give to request r: any, unless it has
\* answered the same request before.
Allowed(r) ==
  IF \E p \in answers : p[1] = r
  THEN {p[2] : p \in {q \in answers : q[1] = r}}
  ELSE Replies

\* Variant of Respond: after a transport failure the call is issued once
\* more.
RespondRetrying(i, reply) ==
  /\ pc[i] = "awaiting"
  /\ reply \in Allowed(req[i])
  /\ answers' = answers \cup {<<req[i], reply>>}
  /\ \E r \in {Answer(reply, req[i])} :
       /\ resp' = [resp EXCEPT ![i] = r]
       /\ IF r.kind = "neterr" /\ calls[i] < 2
          THEN /\ calls' = [calls EXCEPT ![i] = @ + 1]
               /\ UNCHANGED <<pc, out, escaped>>
          ELSE /\ UNCHANGED calls
               /\ IF ReadsBodyItself(tool[i]) /\ r.kind = "http"
                  THEN /\ pc' = [pc EXCEPT ![i] = "reading"]
                       /\ UNCHANGED <<out, escaped>>
                  ELSE \E result \in {Handler(tool[i], args[i], req[i], r)} :
                 Finish(i, result)
  /\ UNCHANGED <<tool, input, args, req, pin, startup>>

\* Variant of Respond: the handler reads the response from a buffer that
\* the invocations share, which holds the response that arrived last.
RespondShared(i, reply) ==
  /\ pc[i] = "awaiting"
  /\ reply \in Allowed(req[i])
  /\ answers' = answers \cup {<<req[i], reply>>}
  /\ \E r \in {IF \E j \in Slots : j # i /\ pc[j] \in {"reading", "done"}
                                   /\ calls[j] = 1
                THEN resp[CHOOSE j \in Slots : j # i /\ calls[j] = 1
                                   /\ pc[j] \in {"reading", "done"}]
                ELSE Answer(reply, req[i])} :
       /\ resp' = [resp EXCEPT ![i] = Answer(reply, req[i])]
       /\ IF ReadsBodyItself(tool[i]) /\ r.kind = "http"
          THEN /\ pc' = [pc EXCEPT ![i] = "reading"]
               /\ UNCHANGED <<out, escaped>>
          ELSE \E result \in {Handler(tool[i], args[i], req[i], r)} :
                 Finish(i, result)
  /\ UNCHANGED <<tool, input, args, req, calls, pin, startup>>

\* Variant of Respond: after a transport failure the handler waits for the
\* call once more instead of returning.
RespondWaiting(i, reply) ==
  /\ pc[i] = "awaiting"
  /\ reply \in Allowed(req[i])
  /\ answers' = answers \cup {<<req[i], reply>>}
  /\ \E r \in {Answer(reply, req[i])} :
       /\ resp' = [resp EXCEPT ![i] = r]
       /\ IF r.kind = "neterr"
          THEN UNCHANGED <<pc, out, escaped>>
          ELSE IF ReadsBodyItself(tool[i])
          THEN /\ pc' = [pc EXCEPT ![i] = "reading"]
               /\ UNCHANGED <<out, escaped>>
          ELSE \E result \in {Handler(tool[i], args[i], req[i], r)} :
                 Finish(i, result)
  /\ UNCHANGED <<tool, input, args, req, calls, pin, startup>>

\* The HTTP call of slot i completes or fails.
Respond(i, reply) ==
  /\ pc[i] = "awaiting"
  /\ reply \in Allowed(req[i])
  /\ answers' = answers \cup {<<req[i], reply>>}
  /\ \E r \in {Answer(reply, req[i])} :
       /\ resp' = [resp EXCEPT ![i] = r]
       /\ IF ReadsBodyItself(tool[i]) /\ r.kind = "http"
          THEN /\ pc' = [pc EXCEPT ![i] = "reading"]
               /\ UNCHANGED <<out, escaped>>
          ELSE \E result \in {Handler(tool[i], args[i], req[i], r)} :
                 Finish(i, result)
  /\ UNCHANGED <<tool, input, args, req, calls, pin, startup>>

\* The body of the response of slot i has been read, or its reading failed.
ReadBody(i) ==
  /\ pc[i] = "reading"
  /\ \E result \in {Handler(tool[i], args[i], req[i], resp[i])} :
       Finish(i, result)
  /\ UNCHANGED <<tool, input, args, req, resp, calls, answers, pin, startup>>

\* The values the API method of the Pipedrive client may reject with: the
\* package is outside the repository, so any value may be thrown.
ThrownValues ==
  {Undefined, Null, Bool(FALSE), Num(404), Str(""), Str("boom"),
   Arr(<<>>), Arr(<< Str("a"), Num(1) >>),
   JsError("Error", "Unauthorized"), JsError("Error", ""),
   Obj(<<>>), Obj(<< <<"message", Str("denied")>> >>),
   Obj(<< <<"message", Num(5)>> >>), Obj(<< <<"message", Null>> >>),
   Bare(<<>>), Bare(<< <<"message", Str("denied")>> >>),
   Bare(<< <<"message", Num(5)>> >>)}

\* The outcome of a call that rejected with the value e.
Rejection(e) ==
  [kind |-> "thrown", value |-> e, message |-> "", status |-> 0,
   statusText |-> "", body |-> "", bodyFails |-> FALSE]

\* The API method awaited by the Pipedrive handler of slot i rejects with
\* the value e, and the catch block runs.
Reject(i, e) ==
  /\ pc[i] = "awaiting"
  /\ ServerOf(tool[i]) = "pipedrive"
  /\ resp' = [resp EXCEPT ![i] = Rejection(e)]
  /\ \E result \in {PipedriveCatch(tool[i], args[i], e)} : Finish(i, result)
  /\ UNCHANGED <<tool, input, args, req, calls, answers, pin, startup>>

(***************************************************************************)
(* Properties.                                                             *)
(***************************************************************************)
Done(i) == pc[i] = "done"
Envelope(i) == out[i][1]

\* The text of the Envelope of slot i when it is a string, "" otherwise.
Said(i) ==
  IF TextOf(Envelope(i)).t = "string" THEN TextOf(Envelope(i)).v ELSE ""

Validated(i) == Validate(tool[i], input[i]).ok
Transported(i) == calls[i] = 1 /\ resp[i].kind = "neterr"
Answered(i) == calls[i] = 1 /\ resp[i].kind = "http"

\* The backend of slot i echoed the posted body with id "c1" added.
Echoed(i) == calls[i] = 1 /\ <<req[i], "echo">> \in answers

\* The tools whose handler passes an input string to encodeURIComponent.
EncodingTools ==
  {"hubspot-list-contacts", "hubspot-get-contact", "hubspot-list-deals",
   "keap-search-contacts"}

\* C1 (as amended): an invocation never issues more than one HTTP call and
\* never produces more than one Envelope; a finished invocation has
\* produced exactly one Envelope; with a validated input it has issued
\* exactly one HTTP call, unless encodeURIComponent threw while the URL was
\* built, in which case it has issued none and its Envelope is an error
\* Envelope saying "URI malformed"; while the call is open there is no
\* Envelope yet.
C1_OneCallOneEnvelope ==
  \A i \in Slots :
    /\ calls[i] <= 1
    /\ Len(out[i]) <= 1
    /\ pc[i] \in {"awaiting", "reading"} => calls[i] = 1 /\ out[i] = <<>>
    /\ Done(i) => Len(out[i]) = 1
    /\ Done(i) /\ Validated(i) =>
         \/ calls[i] = 1
         \/ /\ calls[i] = 0
            /\ tool[i] \in EncodingTools
            /\ IsError(Envelope(i))
            /\ Contains(Said(i), "URI malformed")

\* C1 witness: a validated keap-search-contacts invocation finished without
\* an HTTP call.
C1_Witness ==
  \E i \in Slots :
    /\ Done(i) /\ Validated(i) /\ calls[i] = 0
    /\ tool[i] = "keap-search-contacts"
    /\ Len(out[i]) = 1

\* C1 as stated: every finished invocation with a validated input has
\* issued exactly one HTTP call and produced exactly one Envelope.
C1_Original ==
  \A i \in Slots :
    Done(i) /\ Validated(i) => calls[i] = 1 /\ Len(out[i]) = 1

\* The body of slot i's response cannot be decoded as JSON.
Undecodable(i) ==
  Answered(i) /\ (resp[i].bodyFails \/ ~JSONparse(resp[i].body).ok)

\* C2 as stated: after a validation failure, a transport failure, a non-2xx
\* response, an undecodable body or a value thrown in the handler, nothing
\* is raised out of the handler and the caller has one Envelope with
\* isError true.
C2_Original ==
  \A i \in Slots :
    Done(i) /\ \/ ~Validated(i)
               \/ calls[i] = 0
               \/ Transported(i)
               \/ Answered(i) /\ ~Ok(resp[i])
               \/ Undecodable(i)
      => ~escaped[i] /\ Len(out[i]) = 1 /\ IsError(Envelope(i))

\* The input lacks a field the schema of the tool requires.
MissingRequired(t, in) ==
  \E k \in RequiredNames(Schema(t)) : ~HasKey(in, k)

\* C3: a finished invocation whose input lacks a required field has issued
\* no HTTP call, built no request, and returned one Envelope with isError
\* true.
C3_MissingFieldNoCall ==
  \A i \in Slots :
    Done(i) /\ MissingRequired(tool[i], input[i]) =>
      /\ calls[i] = 0
      /\ req[i] = NoRequest
      /\ Len(out[i]) = 1
      /\ IsError(Envelope(i))

\* C3 witness: getContact was invoked without its contactId and finished.
C3_Witness ==
  \E i \in Slots :
    /\ Done(i) /\ tool[i] = "getContact"
    /\ ~HasKey(input[i], "contactId") /\ HasKey(input[i], "apiKey")
    /\ Len(out[i]) = 1

NotFound == HttpResponse(404, "Not Found", "{\"message\":\"not found\"}")

\* C4 as stated: when the vendor answers 404 with body
\* {"message":"not found"}, the Envelope has isError true and its text
\* contains both 404 and not found.
C4_Original ==
  \A i \in Slots :
    Done(i) /\ calls[i] = 1 /\ resp[i] = NotFound =>
      /\ IsError(Envelope(i))
      /\ Contains(Said(i), "404")
      /\ Contains(Said(i), "not found")

\* C5 as stated: when the vendor answers 200 with body {"id": 42}, the
\* Envelope is a success Envelope whose text is exactly the 2-space-indented
\* JSON of {"id":42}.
C5_Original ==
  \A i \in Slots :
    Done(i) /\ calls[i] = 1 /\ resp[i] = HttpResponse(200, "OK", "{\"id\": 42}") =>
      /\ ~IsError(Envelope(i))
      /\ TextOf(Envelope(i)) = Str("{\n  \"id\": 42\n}")

\* The text after the first empty line of s.
RECURSIVE AfterBlankLine(_)
AfterBlankLine(s) ==
  IF Len(s) < 2 THEN ""
  ELSE IF SubSeq(s, 1, 2) = "\n\n" THEN SubSeq(s, 3, Len(s))
  ELSE AfterBlankLine(Tail(s))

\* The FreshWorks tools that create or change something.
MutatingTools ==
  {"freshdesk-create-ticket", "freshdesk-update-ticket", "freshdesk-add-note",
   "freshdesk-create-contact", "freshdesk-update-contact",
   "freshchat-send-message"}

\* The parsed vendor response of slot i.
Body(i) == JSONparse(resp[i].body)

\* Slot i returned a success Envelope for a response whose body is JSON.
Succeeded(i) ==
  /\ Done(i) /\ Answered(i) /\ ~resp[i].bodyFails
  /\ Body(i).ok
  /\ ~IsError(Envelope(i))

\* C6 (as amended): for a success Envelope returned for a JSON body, parsing
\* the text gives back the parsed body in the GoHighLevel, Hubspot and Keap
\* tools and in the FreshWorks read tools; in the FreshWorks mutating tools
\* the text is a confirmation line and an empty line followed by a text that
\* parses to the body (the whole text does not parse); in the Pipedrive
\* tools the text parses to the `data` member of the body, and is undefined
\* when the body has none.
C6_RoundTrip ==
  \A i \in Slots :
    Succeeded(i) =>
      CASE ServerOf(tool[i]) = "pipedrive" ->
             IF IsObj(Body(i).v) /\ HasKey(Body(i).v, "data")
             THEN JSONparse(Said(i)) = [ok |-> TRUE, v |-> Get(Body(i).v, "data")]
             ELSE TextOf(Envelope(i)) = Undefined
        [] tool[i] \in MutatingTools ->
             /\ FirstLine(Said(i)) # ""
             /\ ~JSONparse(Said(i)).ok
             /\ JSONparse(AfterBlankLine(Said(i))) = [ok |-> TRUE, v |-> Body(i).v]
        [] OTHER ->
             /\ TextOf(Envelope(i)).t = "string"
             /\ JSONparse(Said(i)) = [ok |-> TRUE, v |-> Body(i).v]

\* C6 witness: freshdesk-update-ticket returned a success Envelope for a
\* JSON body.
C6_Witness ==
  \E i \in Slots :
    Succeeded(i) /\ tool[i] = "freshdesk-update-ticket" /\ IsObj(Body(i).v)

\* C6 as stated: the text of every success Envelope parses to the parsed
\* vendor response.
C6_Original ==
  \A i \in Slots :
    Succeeded(i) =>
      /\ TextOf(Envelope(i)).t = "string"
      /\ JSONparse(Said(i)) = [ok |-> TRUE, v |-> Body(i).v]

\* The tools whose request is a GET.
GetTools ==
  {t \in Tools :
     BuildRequest(t, Validate(t, SampleObject(Schema(t), FALSE)).v).req.method
       = "GET"}

EmailOnly == Obj(<< <<"email", Str("a@b.com")>> >>)
EchoText == "{\n  \"email\": \"a@b.com\",\n  \"id\": \"c1\"\n}"

\* createContact was called with contact data {email: "a@b.com"} and the
\* backend echoed the body with id "c1".
EchoScenario(i) ==
  /\ Done(i) /\ Echoed(i)
  /\ tool[i] = "createContact"
  /\ Get(input[i], "contactData") = EmailOnly

\* C8 (as amended): in the echo scenario createContact returns a success
\* Envelope whose text is exactly the 2-space-indented JSON echo: its first
\* line is "{" and does not contain c1, which appears on a later line.  The
\* tool that puts a line containing c1 first is freshdesk-create-contact
\* (which requires name and email): its text is the line "Contact created
\* successfully with ID: c1", an empty line, and the JSON echo.
C8_CreateContactEcho ==
  \A i \in Slots :
    /\ EchoScenario(i) =>
         /\ ~IsError(Envelope(i))
         /\ Said(i) = EchoText
         /\ FirstLine(Said(i)) = "{"
         /\ ~Contains(FirstLine(Said(i)), "c1")
         /\ Contains(Said(i), "c1")
    /\ Done(i) /\ Echoed(i) /\ tool[i] = "freshdesk-create-contact" =>
         /\ ~IsError(Envelope(i))
         /\ FirstLine(Said(i)) = "Contact created successfully with ID: c1"
         /\ Said(i) = FirstLine(Said(i)) \o "\n\n" \o AfterBlankLine(Said(i))
         /\ JSONparse(AfterBlankLine(Said(i))) = [ok |-> TRUE, v |-> Body(i).v]

\* C8 witness: the echo scenario has happened.
C8_Witness == \E i \in Slots : EchoScenario(i) /\ Len(out[i]) = 1

\* C8 as stated: in the echo scenario the text starts with a line
\* containing c1, followed by the JSON echo.
C8_Original ==
  \A i \in Slots :
    EchoScenario(i) =>
      /\ ~IsError(Envelope(i))
      /\ Contains(FirstLine(Said(i)), "c1")
      /\ Contains(Said(i), EchoText)

\* The words before the underlying message in the error text of a tool.
TransportPrefix(t, a) ==
  CASE ServerOf(t) \in {"ghl", "freshworks"} -> "Error"
    [] ServerOf(t) \in {"hubspot", "keap"} -> ErrorPhrase(t)
    [] OTHER -> PipedrivePhrase(t, a)

\* C9 (as amended): after a transport failure the invocation has issued one
\* HTTP call and returned one Envelope with isError true whose text is
\* '<prefix>: <message>': the prefix is 'Error' in the GoHighLevel and
\* FreshWorks tools only, and the tool's own phrase ('Error fetching Keap
\* contacts', 'Error fetching persons', ...) in the Hubspot, Keap and
\* Pipedrive tools; in the fetch and axios servers the message holds the
\* underlying message.
C9_TransportFailure ==
  \A i \in Slots :
    Done(i) /\ Transported(i) =>
      /\ calls[i] = 1 /\ Len(out[i]) = 1
      /\ IsError(Envelope(i))
      /\ StartsWith(Said(i), TransportPrefix(tool[i], args[i]) \o ": ")
      /\ StartsWith(Said(i), "Error: ")
           <=> ServerOf(tool[i]) \in {"ghl", "freshworks"}
      /\ ServerOf(tool[i]) # "pipedrive" => Contains(Said(i), resp[i].message)

\* C9 witness: keap-list-contacts finished after a transport failure.
C9_Witness ==
  \E i \in Slots :
    /\ Done(i) /\ Transported(i) /\ tool[i] = "keap-list-contacts"
    /\ StartsWith(Said(i), "Error fetching Keap contacts: ")

\* C9 as stated: after a transport failure the text has the form
\* 'Error: <underlying message>'.
C9_Original ==
  \A i \in Slots :
    Done(i) /\ Transported(i) =>
      /\ IsError(Envelope(i))
      /\ StartsWith(Said(i), "Error: ")
      /\ calls[i] = 1

\* C10 as stated: after a non-2xx response the Envelope has isError true
\* and its text is 'API Error (<status>): <body>'.
C10_Original ==
  \A i \in Slots :
    Done(i) /\ Answered(i) /\ ~Ok(resp[i]) /\ ~resp[i].bodyFails =>
      /\ IsError(Envelope(i))
      /\ StartsWith(Said(i),
                    "API Error (" \o NumberToString(resp[i].status) \o "): ")
      /\ Contains(Said(i), resp[i].body)

\* The vendor answered slot i with a 2xx status and a body that was read in
\* full and is not valid JSON.
SuccessNotJson(i) ==
  /\ Answered(i) /\ Ok(resp[i])
  /\ ~resp[i].bodyFails /\ ~JSONparse(resp[i].body).ok

\* C11 as stated: after a 2xx response whose body is not valid JSON the
\* Envelope has isError true, and the unparsed body is not the content of a
\* success Envelope.
C11_Original ==
  \A i \in Slots :
    Done(i) /\ SuccessNotJson(i) =>
      /\ IsError(Envelope(i))
      /\ ~Contains(Said(i), resp[i].body)

\* The text of slot i's Envelope reports that a body could not be parsed as
\* JSON (the words of node-fetch's response.json()).
ReportsParseFailure(i) ==
  \/ Contains(Said(i), "invalid json response body")
  \/ Contains(Said(i), "Unexpected token")

\* C12 as stated: a parse failure is reported only for a response with a
\* success status, and a non-2xx response is reported as an error that
\* carries its status and is not a parse failure.
C12_Original ==
  \A i \in Slots :
    /\ Done(i) /\ IsError(Envelope(i)) /\ ReportsParseFailure(i) =>
         Answered(i) /\ Ok(resp[i])
    /\ Done(i) /\ Answered(i) /\ ~Ok(resp[i]) =>
         /\ IsError(Envelope(i))
         /\ Contains(Said(i), NumberToString(resp[i].status))
         /\ ~ReportsParseFailure(i)

\* The text of s before, and after, the first occurrence of the character c
\* (all of s, and nothing, when c does not occur).
RECURSIVE TextBefore(_, _)
TextBefore(s, c) ==
  IF s = "" \/ Head(s) = c THEN "" ELSE Head(s) \o TextBefore(Tail(s), c)

RECURSIVE TextAfter(_, _)
TextAfter(s, c) ==
  IF s = "" THEN "" ELSE IF Head(s) = c THEN Tail(s) ELSE TextAfter(Tail(s), c)

RECURSIVE SplitOn(_, _)
SplitOn(s, c) ==
  IF ~Contains(s, c) THEN <<s>>
  ELSE <<TextBefore(s, c)>> \o SplitOn(TextAfter(s, c), c)

\* The entries of the query string of url, as the receiving server splits
\* them: the text after the first "?" up to a "#", cut at each "&".
QueryEntries(url) ==
  LET query == TextBefore(TextAfter(url, "?"), "#") IN
  IF query = "" THEN <<>> ELSE SplitOn(query, "&")

QueryKey(entry) == TextBefore(entry, "=")
QueryValue(entry) == TextAfter(entry, "=")

\* The input field of tool t that the query key k carries.
FieldOf(t, k) ==
  CASE k = "per_page" -> "perPage"
    [] k = "items_per_page" -> "itemsPerPage"
    [] k = "assignee_id" -> "assigneeId"
    [] t = "keap-search-contacts" /\ k \in {"email", "given_name"} -> "query"
    [] OTHER -> k

\* The query key of the credential (Pipedrive), which is no input field.
CredentialKey == "api_token"

\* The handler of slot i built its request from a validated input.
Requested(i) == calls[i] = 1 /\ Validated(i)

\* The input of slot i holds a string with a "?" or "&" that the handler puts
\* into the URL as it is: a path value, or an element of Keap's `fields`.
BreaksOut(i) ==
  \/ \E f \in {"contactId", "taskId", "ticketId", "conversationId",
                "subdomain", "domain"} :
       /\ HasKey(input[i], f)
       /\ Contains(JsString(Get(input[i], f)), "?")
       /\ Contains(req[i].url, JsString(Get(input[i], f)))
  \/ /\ ServerOf(tool[i]) = "keap" /\ HasKey(input[i], "fields")
     /\ \E n \in DOMAIN Get(input[i], "fields").v :
          /\ Contains(Get(input[i], "fields").v[n].v, "&")
          /\ Contains(req[i].url, Get(input[i], "fields").v[n].v)

\* C13 (as amended): the URL of a request built from a valid input holds no
\* "undefined"; a query entry is the credential, or carries a field of the
\* validated arguments, which is a field of the input or a field the schema
\* gives a default (page, limit, perPage, itemsPerPage, properties, fields):
\* an absent field with a default is sent with the default's value, an
\* absent field without one is never sent.  An entry without a value
\* appears only for an empty array the input supplies, and a key that is no
\* field only when a path value holding "?", or an element of Keap's
\* `fields` holding "&", was put into the URL unencoded.
C13_QueryKeys ==
  \A i \in Slots :
    Requested(i) =>
      /\ ~Contains(req[i].url, "undefined")
      /\ \A n \in DOMAIN QueryEntries(req[i].url) :
           LET e == QueryEntries(req[i].url)[n]
               f == FieldOf(tool[i], QueryKey(e))
           IN \/ QueryKey(e) = CredentialKey /\ ServerOf(tool[i]) = "pipedrive"
              \/ /\ HasKey(args[i], f)
                 /\ QueryValue(e) # ""
                 /\ ~HasKey(input[i], f) =>
                      \E j \in DOMAIN Schema(tool[i]) :
                        /\ Schema(tool[i])[j].name = f
                        /\ Schema(tool[i])[j].def = Get(args[i], f)
              \/ /\ QueryValue(e) = ""
                 /\ \E g \in {"properties", "fields"} :
                      HasKey(input[i], g) /\ Get(input[i], g) = Arr(<<>>)
              \/ BreaksOut(i)

\* C13 witness: getContacts was called with its apiKey only and the request
\* went out with the defaults of page and limit in its query string.
C13_Witness ==
  \E i \in Slots :
    /\ Requested(i) /\ tool[i] = "getContacts"
    /\ ~HasKey(input[i], "page") /\ ~HasKey(input[i], "limit")
    /\ ~HasKey(input[i], "query")
    /\ QueryEntries(req[i].url) = <<"page=1", "limit=20">>

\* C13 as stated: the URL holds no "undefined", every query key other than
\* the credential carries a field that is present in the input, and no
\* entry has an empty value.
C13_Original ==
  \A i \in Slots :
    Requested(i) =>
      /\ ~Contains(req[i].url, "undefined")
      /\ \A n \in DOMAIN QueryEntries(req[i].url) :
           LET e == QueryEntries(req[i].url)[n] IN
           \/ QueryKey(e) = CredentialKey
           \/ /\ HasKey(input[i], FieldOf(tool[i], QueryKey(e)))
              /\ QueryValue(e) # ""

\* The input fields whose value a handler substitutes into the URL path or
\* host.
PathFields ==
  {"contactId", "taskId", "ticketId", "conversationId", "subdomain", "domain",
   "personId", "organizationId"}

\* C14 as stated: a value the handler substitutes into the URL path is
\* percent-encoded: the URL holds the value only in its encoded form, so a
\* value with "/", "?" or "#" adds no path segment, query or fragment.
C14_Original ==
  \A i \in Slots :
    Requested(i) =>
      \A f \in PathFields :
        HasKey(args[i], f) /\ Contains(req[i].url, JsString(Get(args[i], f))) =>
          /\ JsString(Get(args[i], f))
               = encodeURIComponent(JsString(Get(args[i], f)))
          /\ QueryEntries(req[i].url)
               = QueryEntries(BuildRequest(tool[i],
                   Put(args[i], f, Str("id"))).req.url)

\* The JSON body of the request of slot i, parsed.
SentBody(i) == JSONparse(req[i].body.v).v

\* The input field whose object a tool sends as its whole body ("" when the
\* handler assembles the body field by field).
WholeBodyField(t) ==
  CASE t \in {"createContact", "updateContact"} -> "contactData"
    [] t \in {"createTask", "updateTask"} -> "taskData"
    [] t = "createOpportunity" -> "opportunityData"
    [] t = "createCalendarEvent" -> "eventData"
    [] t \in {"keap-create-contact", "keap-update-contact"} -> "contact"
    [] OTHER -> ""

\* <<input field, body key>> for the tools that assemble the body field by
\* field.
BodyKeys(t) ==
  CASE t = "addContactTags" -> {<<"tags", "tags">>}
    [] t \in {"hubspot-create-contact", "hubspot-update-contact"} ->
         {<<"properties", "properties">>}
    [] t = "hubspot-search-contacts" ->
         {<<"query", "filterGroups">>, <<"properties", "properties">>,
          <<"limit", "limit">>}
    [] t \in {"freshdesk-create-ticket", "freshdesk-update-ticket"} ->
         {<<"subject", "subject">>, <<"description", "description">>,
          <<"email", "email">>, <<"priority", "priority">>,
          <<"status", "status">>, <<"tags", "tags">>}
    [] t = "freshdesk-add-note" ->
         {<<"body", "body">>, <<"isPrivate", "private">>}
    [] t \in {"freshdesk-create-contact", "freshdesk-update-contact"} ->
         {<<"name", "name">>, <<"email", "email">>, <<"phone", "phone">>,
          <<"mobilePhone", "mobile">>, <<"twitterId", "twitter_id">>,
          <<"description", "description">>,
          <<"companyName", "other_companies">>}
    [] t = "freshchat-send-message" ->
         {<<"actorType", "actor_type">>, <<"actorId", "actor_id">>,
          <<"messageType", "message_type">>, <<"message", "message">>}
    [] OTHER -> {}

\* Slot i has sent a request with a JSON body by POST, PUT or PATCH.
Posted(i) ==
  /\ Requested(i) /\ req[i].method \in {"POST", "PUT", "PATCH"}
  /\ req[i].body.t = "string"

\* C15 as stated: the body holds exactly the fields the caller supplied,
\* under the vendor's names: a supplied field is in the body, a field the
\* input omits is not, and the only null is company_id, set by
\* freshdesk-create-contact when a company name is given.
C15_Original ==
  \A i \in Slots :
    Posted(i) =>
      /\ WholeBodyField(tool[i]) # "" =>
           SentBody(i) = Get(input[i], WholeBodyField(tool[i]))
      /\ \A p \in BodyKeys(tool[i]) :
           HasKey(input[i], p[1]) <=> HasKey(SentBody(i), p[2])
      /\ \A n \in DOMAIN SentBody(i).v :
           SentBody(i).v[n][2] = Null =>
             /\ SentBody(i).v[n][1] = "company_id"
             /\ tool[i] = "freshdesk-create-contact"
             /\ HasKey(input[i], "companyName")

\* The positions of the query entries of url whose key is k.
EntriesWithKey(url, k) ==
  {n \in DOMAIN QueryEntries(url) : QueryKey(QueryEntries(url)[n]) = k}

\* The apiKey the caller of slot i supplied.
SuppliedKey(i) == Get(input[i], "apiKey").v

\* C16 (as amended): every request issued carries the credential in exactly
\* one place.  In the Pipedrive server it is the query parameter api_token,
\* holding the non-empty token of the environment, once, and there is no
\* Authorization header; in the FreshWorks, GoHighLevel, Hubspot and Keap
\* servers it is the header 'Authorization: Bearer <apiKey>' with the apiKey
\* of the input, whatever string that is (the empty string included), and
\* neither an api_token entry nor the key itself is in the URL.
C16_CredentialPlace ==
  \A i \in Slots :
    calls[i] >= 1 =>
      IF ServerOf(tool[i]) = "pipedrive"
      THEN /\ "Authorization" \notin DOMAIN req[i].headers
           /\ Cardinality(EntriesWithKey(req[i].url, CredentialKey)) = 1
           /\ \A n \in EntriesWithKey(req[i].url, CredentialKey) :
                /\ QueryValue(QueryEntries(req[i].url)[n])
                     = encodeURIComponent(PIPEDRIVE_API_TOKEN)
                /\ QueryValue(QueryEntries(req[i].url)[n]) # ""
      ELSE /\ "Authorization" \in DOMAIN req[i].headers
           /\ req[i].headers.Authorization = "Bearer " \o SuppliedKey(i)
           /\ EntriesWithKey(req[i].url, CredentialKey) = {}
           /\ SuppliedKey(i) # "" => ~Contains(req[i].url, SuppliedKey(i))

\* C16 witness: getCalendars was called with an empty apiKey and its
\* request went out.
C16_Witness ==
  \E i \in Slots :
    /\ calls[i] = 1 /\ tool[i] = "getCalendars"
    /\ SuppliedKey(i) = ""
    /\ req[i].headers.Authorization = "Bearer "

\* C16 as stated: every request issued carries a credential, in the
\* Authorization header as a bearer token or in the query parameter
\* api_token, and not in both.
C16_Original ==
  \A i \in Slots :
    calls[i] >= 1 =>
      IF ServerOf(tool[i]) = "pipedrive"
      THEN /\ "Authorization" \notin DOMAIN req[i].headers
           /\ \E n \in EntriesWithKey(req[i].url, CredentialKey) :
                QueryValue(QueryEntries(req[i].url)[n]) # ""
      ELSE /\ "Authorization" \in DOMAIN req[i].headers
           /\ StartsWith(req[i].headers.Authorization, "Bearer ")
           /\ req[i].headers.Authorization # "Bearer "
           /\ EntriesWithKey(req[i].url, CredentialKey) = {}

\* C17: in the Pipedrive server, while the environment holds no token or an
\* empty one, no tool or prompt is registered, the API client is not
\* constructed, the transport is not connected, no Pipedrive tool is
\* invoked and no HTTP call is issued; once the first statements have run
\* the process has exited, with the line that names the variable on stderr
\* as its only output.  A Pipedrive request is issued only with the token
\* of the environment in the API client.
C17_NoTokenNoServer ==
  /\ ~Truthy(environment) =>
       /\ process["pipedrive"].phase \in {"off", "start", "exited"}
       /\ process["pipedrive"].tools = <<>>
       /\ process["pipedrive"].prompts = <<>>
       /\ apiClient = Undefined
       /\ \A i \in Slots : tool[i] \notin PipedriveTools
       /\ process["pipedrive"].phase # "off" =>
            \A i \in Slots : pc[i] \in {"idle", "off"} /\ calls[i] = 0
       /\ process["pipedrive"].phase = "exited" =>
            process["pipedrive"].stderr = <<MissingTokenLine>>
       /\ process["pipedrive"].phase # "exited" =>
            process["pipedrive"].stderr = <<>>
  /\ \A i \in Slots :
       tool[i] \in PipedriveTools =>
         /\ Truthy(environment)
         /\ apiClient = NewApiClient(environment)
         /\ process["pipedrive"].phase = "connected"

\* C17 witness: the Pipedrive server was started with an empty token and
\* has exited with the line on stderr.
C17_Witness ==
  /\ environment = Str("")
  /\ process["pipedrive"].phase = "exited"
  /\ process["pipedrive"].stderr = <<MissingTokenLine>>
  /\ \A i \in Slots : pc[i] \in {"idle", "off"} /\ calls[i] = 0

\* The tools of server s, as the sets the schemas are given for.
ToolsOf(s) == {t \in Tools : ServerOf(t) = s}

\* The names in a sequence are pairwise distinct.
Distinct(names) ==
  \A a, b \in DOMAIN names : a # b => names[a] # names[b]

\* C19: the registered tool names of a server are pairwise distinct at every
\* point; before the first registration the registry is empty; a server
\* whose transport is connected has every tool of its source registered, in
\* source order, and its registry stays that way whatever is invoked; a
\* tool is invoked only on a connected server that has it registered.
C19_RegistryFixed ==
  \A s \in Servers :
    /\ Distinct(process[s].tools)
    /\ process[s].phase \in {"off", "start"} => process[s].tools = <<>>
    /\ process[s].phase = "connected" =>
         /\ process[s].tools = Registered(s, "tool", Len(Registrations(s)))
         /\ {process[s].tools[k] : k \in DOMAIN process[s].tools} = ToolsOf(s)
         /\ Len(process[s].tools) = Cardinality(ToolsOf(s))
    /\ \A i \in Slots :
         pc[i] \notin {"idle", "off"} /\ ServerOf(tool[i]) = s =>
           process[s] = Serving(s)

\* C19 witness: the GoHighLevel server registered its fifteen tools, was
\* connected, and has answered an invocation.
C19_Witness ==
  \E i \in Slots :
    /\ Done(i) /\ ServerOf(tool[i]) = "ghl" /\ calls[i] = 1
    /\ process["ghl"].phase = "connected"
    /\ Len(process["ghl"].tools) = Cardinality(GhlTools)
    /\ process["pipedrive"].phase = "off"

RefineMessage == "Either email or phone must be provided"

\* The contact data of slot i's input, for a createContact invocation whose
\* input is valid but for the refinement: both fields of the input are
\* there and each field of the contact data has a valid value.
ContactData(i) == Get(input[i], "contactData")
RefinementDecides(i) ==
  /\ Done(i) /\ tool[i] = "createContact"
  /\ HasKey(input[i], "apiKey") /\ IsObj(ContactData(i))
  /\ ZodObject(GhlContactShape, ContactData(i)).ok

\* C20 (as amended): createContact rejects, with one error Envelope naming
\* the refinement and without building a request or issuing an HTTP call,
\* every input whose contact data has neither a non-empty email nor a
\* non-empty phone (an absent field and the empty string count alike); an
\* input with a non-empty email or phone passes validation and its request
\* is issued.
C20_EmailOrPhone ==
  \A i \in Slots :
    RefinementDecides(i) =>
      IF Truthy(Get(ContactData(i), "email")) \/ Truthy(Get(ContactData(i), "phone"))
      THEN Validated(i) /\ calls[i] = 1
      ELSE /\ ~Validated(i)
           /\ calls[i] = 0 /\ req[i] = NoRequest
           /\ Len(out[i]) = 1 /\ IsError(Envelope(i))
           /\ Contains(Said(i), RefineMessage)

\* C20 witness: createContact was called with the contact data
\* {phone: "", firstName: "Ann"} and the call has returned.
C20_Witness ==
  \E i \in Slots :
    /\ RefinementDecides(i)
    /\ Get(ContactData(i), "phone") = Str("")
    /\ ~HasKey(ContactData(i), "email")
    /\ Len(out[i]) = 1

\* C20 as stated: createContact rejects the inputs whose contact data
\* supplies neither email nor phone, and an input that supplies one of them
\* passes the refinement.
C20_Original ==
  \A i \in Slots :
    RefinementDecides(i) =>
      IF HasKey(ContactData(i), "email") \/ HasKey(ContactData(i), "phone")
      THEN Validated(i) /\ calls[i] = 1
      ELSE ~Validated(i) /\ calls[i] = 0 /\ IsError(Envelope(i))

\* C21: when every HTTP call and every reading of a response body completes
\* or fails, an invocation that has issued its HTTP call eventually returns
\* its one Envelope, having issued no further call.
C21_EventuallyEnvelope ==
  \A i \in Slots :
    (pc[i] \in {"awaiting", "reading"})
      ~> (pc[i] = "done" /\ Len(out[i]) = 1 /\ calls[i] = 1)

\* C21 witness: keap-list-contacts issued its call, read the body of the
\* response and returned its Envelope.
C21_Witness ==
  \E i \in Slots :
    /\ Done(i) /\ calls[i] = 1 /\ tool[i] = "keap-list-contacts"
    /\ resp[i].kind = "http" /\ Len(out[i]) = 1

\* The FreshWorks tools that create or change something.
FreshworksMutating ==
  {"freshdesk-create-ticket", "freshdesk-update-ticket", "freshdesk-add-note",
   "freshdesk-create-contact", "freshdesk-update-contact",
   "freshchat-send-message"}

\* response.data of slot i as axios hands it over: the parsed body, or the
\* body text when it is not JSON.
ResponseData(i) ==
  LET p == JSONparse(resp[i].body)
  IN IF p.ok THEN p.v ELSE Str(resp[i].body)

\* Slot i ran a FreshWorks tool and returned a success Envelope for a
\* response of the vendor.
FreshworksSuccess(i) ==
  /\ Done(i) /\ ServerOf(tool[i]) = "freshworks"
  /\ Answered(i) /\ ~IsError(Envelope(i))

\* The confirmation the claim describes for slot i, built around the text
\* `id` of the identifier.
ConfirmationLine(i, id) ==
  CASE tool[i] = "freshdesk-create-ticket" ->
         "Ticket created successfully with ID: " \o id
    [] tool[i] = "freshdesk-update-ticket" ->
         "Ticket " \o id \o " updated successfully"
    [] tool[i] = "freshdesk-add-note" ->
         "Note added successfully to ticket " \o id
    [] tool[i] = "freshdesk-create-contact" ->
         "Contact created successfully with ID: " \o id
    [] tool[i] = "freshdesk-update-contact" ->
         "Contact " \o id \o " updated successfully"
    [] OTHER -> "Message sent successfully to conversation " \o id

\* The identifier the confirmation of slot i names: response.data.id for the
\* two create tools, the id of the input for the others.
NamedIdentifier(i) ==
  CASE tool[i] \in {"freshdesk-create-ticket", "freshdesk-create-contact"} ->
         Member(ResponseData(i), "id")
    [] tool[i] \in {"freshdesk-update-ticket", "freshdesk-add-note"} ->
         Get(args[i], "ticketId")
    [] tool[i] = "freshdesk-update-contact" -> Get(args[i], "contactId")
    [] OTHER -> Get(args[i], "conversationId")

\* The success text of slot i is one line, an empty line, then the indented
\* JSON of the response body (mutating tools), or that JSON alone.
SuccessTextShape(i) ==
  IF tool[i] \in FreshworksMutating
  THEN /\ Said(i) = ConfirmationLine(i, JsString(NamedIdentifier(i)))
                      \o "\n\n" \o JsString(JSONstringify2(ResponseData(i)))
       /\ FirstLine(Said(i))
            = ConfirmationLine(i, JsString(NamedIdentifier(i)))
  ELSE TextOf(Envelope(i)) = JSONstringify2(ResponseData(i))

\* C22 (amended): the success text of a FreshWorks mutating tool is the
\* confirmation line around String(identifier), an empty line and the
\* 2-space JSON of response.data, and that of a read tool is the JSON alone;
\* for the create tools the identifier is response.data.id, which reads
\* "undefined" when the body has no top-level id.
C22_SuccessText ==
  \A i \in Slots : FreshworksSuccess(i) => SuccessTextShape(i)

\* C22 witness: freshdesk-create-ticket confirmed the id 42 of the response,
\* and a read tool returned the JSON alone.
C22_Witness ==
  \E i \in Slots :
    /\ FreshworksSuccess(i) /\ tool[i] = "freshdesk-create-ticket"
    /\ FirstLine(Said(i)) = "Ticket created successfully with ID: 42"
    /\ Said(i) = "Ticket created successfully with ID: 42\n\n{\n  \"id\": 42\n}"

\* C22 as stated: the confirmation of a create tool names the id of the
\* created object, so the response it confirms carries one.
C22_Original ==
  \A i \in Slots :
    FreshworksSuccess(i) =>
      /\ SuccessTextShape(i)
      /\ tool[i] \in FreshworksMutating =>
           NamedIdentifier(i).t \in {"number", "string"}

\* The handler of slot i ran and returned an Envelope.
HandlerReturned(i) == Done(i) /\ Validated(i) /\ ~escaped[i]

\* The try block of slot i's handler threw, or took its `!response.ok`
\* branch: no request could be built, the call or the reading of the body
\* failed, the status is outside 2xx, the body a fetch handler or the
\* Pipedrive client parses is not JSON, or a property of a null body is read.
ErrorPath(i) ==
  \/ calls[i] = 0
  \/ Transported(i)
  \/ /\ Answered(i)
     /\ \/ resp[i].bodyFails
        \/ ~Ok(resp[i])
        \/ /\ ServerOf(tool[i]) \in {"ghl", "hubspot", "keap", "pipedrive"}
           /\ ~JSONparse(resp[i].body).ok
        \/ /\ ServerOf(tool[i]) = "pipedrive"
           /\ Nullish(ResponseData(i))
        \/ /\ tool[i] \in {"freshdesk-create-ticket",
                           "freshdesk-create-contact"}
           /\ Nullish(ResponseData(i))

\* C23: an Envelope returned by a handler holds exactly one content item,
\* of type "text"; it has isError true when it was built on an error path
\* and has no isError field when it was built on the success path.
C23_EnvelopeShape ==
  \A i \in Slots :
    HandlerReturned(i) =>
      /\ Len(out[i]) = 1
      /\ Len(Envelope(i).content) = 1
      /\ DOMAIN Envelope(i).content[1] = {"type", "text"}
      /\ Envelope(i).content[1].type = "text"
      /\ ErrorPath(i) => DOMAIN Envelope(i) = {"content", "isError"}
                         /\ Envelope(i).isError = TRUE
      /\ ~ErrorPath(i) => DOMAIN Envelope(i) = {"content"}

\* C23 witness: a Hubspot handler took its `!response.ok` branch for a 404
\* and returned its error Envelope.
C23_Witness ==
  \E i \in Slots :
    /\ HandlerReturned(i) /\ ServerOf(tool[i]) = "hubspot"
    /\ Answered(i) /\ resp[i].status = 404
    /\ ErrorPath(i) /\ IsError(Envelope(i))

\* Slot i ran a GoHighLevel tool and the body of the response was read.
GhlAnswered(i) ==
  /\ Done(i) /\ ServerOf(tool[i]) = "ghl"
  /\ Answered(i) /\ ~resp[i].bodyFails

\* The message of ghlRequest's error for the parsed body data of slot i's
\* response: the message field, or the status text when it is falsy.
GhlApiError(i, data) ==
  "GoHighLevel API error: "
    \o (IF Truthy(Member(data, "message"))
        THEN JsString(Member(data, "message"))
        ELSE resp[i].statusText)

\* For a body that is JSON and a status outside 2xx the Envelope reports
\* ghlRequest's API error, without the numeric status; for a body that is
\* not JSON it reports the parse failure, whatever the status.
GhlReport(i) ==
  IF JSONparse(resp[i].body).ok
  THEN ~Ok(resp[i]) =>
         /\ IsError(Envelope(i))
         /\ Said(i) = "Error: " \o GhlApiError(i, ResponseData(i))
         /\ ~Contains(Said(i), NumberToString(resp[i].status))
  ELSE IsError(Envelope(i)) /\ ReportsParseFailure(i)

\* C24 as stated: every non-2xx response with a JSON body is reported as
\* 'GoHighLevel API error: ' with the body's message or the status text,
\* and every body that is not JSON as a parse failure.
C24_Original ==
  \A i \in Slots : GhlAnswered(i) => GhlReport(i)

\* What holds of ghlRequest: the same, for JSON bodies other than null.
GhlReportNotNull ==
  \A i \in Slots :
    GhlAnswered(i) /\ ~(~Ok(resp[i]) /\ resp[i].body = "null") => GhlReport(i)

\* The GoHighLevel list tools and the query keys of each, in the order the
\* claim gives: the filter keys, then page, then limit.
GhlListTools == {"getContacts", "getTasks", "getOpportunities"}

ListKeys(t) ==
  (CASE t = "getContacts" -> <<"query">>
     [] t = "getOpportunities" -> <<"pipelineId", "stageId">>
     [] OTHER -> <<>>) \o <<"page", "limit">>

\* The value of key k for slot i: the one supplied, or for an omitted page
\* or limit its default.
ListValue(i, k) ==
  IF HasKey(input[i], k) THEN Get(input[i], k)
  ELSE IF k = "page" THEN Num(1)
  ELSE IF k = "limit" THEN Num(20)
  ELSE Undefined

\* The keys of slot i whose value is truthy, in order.
TruthyKeys(i) ==
  SelectSeq(ListKeys(tool[i]), LAMBDA k : Truthy(ListValue(i, k)))

\* C25: the query string of a GoHighLevel list tool holds, in the order
\* filter keys, page, limit, exactly the keys whose value is truthy, each
\* with its value as a string: an omitted page or limit goes out as 1 or 20,
\* a supplied 0 or "" does not go out.
C25_TruthyKeysInOrder ==
  \A i \in Slots :
    Requested(i) /\ tool[i] \in GhlListTools =>
      LET entries == QueryEntries(req[i].url) IN
      /\ Len(entries) = Len(TruthyKeys(i))
      /\ \A n \in DOMAIN entries :
           /\ QueryKey(entries[n]) = TruthyKeys(i)[n]
           /\ QueryValue(entries[n])
                = MapChars(JsString(ListValue(i, TruthyKeys(i)[n])), "form")

\* C25 witness: getOpportunities with pipelineId "", stageId "s 1", limit 0
\* and no page sent stageId and the default page, and nothing else.
C25_Witness ==
  \E i \in Slots :
    /\ Requested(i) /\ tool[i] = "getOpportunities"
    /\ HasKey(input[i], "pipelineId") /\ Get(input[i], "limit") = Num(0)
    /\ ~HasKey(input[i], "page")
    /\ QueryEntries(req[i].url) = <<"stageId=s+1", "page=1">>

\* Slot i ran a FreshWorks tool whose try block threw.
FreshworksFailed(i) ==
  HandlerReturned(i) /\ ServerOf(tool[i]) = "freshworks" /\ ErrorPath(i)

\* The error axios raised for slot i carries a response: the vendor
\* answered with a status outside 2xx and the body was read.
CarriesResponse(i) == Answered(i) /\ ~resp[i].bodyFails /\ ~Ok(resp[i])

\* The message of the error caught in slot i when it carries no response:
\* the transport's or the body stream's message, or that of the TypeError
\* of reading the id of a null body.
CaughtMessage(i) ==
  IF Transported(i) \/ resp[i].bodyFails THEN resp[i].message
  ELSE "Cannot read properties of null (reading 'id')"

\* C26: every failure of a FreshWorks tool is reported with isError and one
\* of two texts: 'API Error (<status>): <JSON of response.data>' when the
\* error carries a response, otherwise 'Error: <message>', where an empty
\* message reads 'Unknown error'.
C26_TwoTexts ==
  \A i \in Slots :
    FreshworksFailed(i) =>
      /\ IsError(Envelope(i))
      /\ IF CarriesResponse(i)
         THEN Said(i) = "API Error (" \o NumberToString(resp[i].status)
                          \o "): " \o JsString(JSONstringify(ResponseData(i)))
         ELSE Said(i) = "Error: " \o (IF CaughtMessage(i) = ""
                                      THEN "Unknown error"
                                      ELSE CaughtMessage(i))

\* C26 witness: a FreshWorks call failed with an error whose message is
\* empty and the tool answered 'Error: Unknown error'.
C26_Witness ==
  \E i \in Slots :
    /\ FreshworksFailed(i) /\ Transported(i) /\ resp[i].message = ""
    /\ Said(i) = "Error: Unknown error"

\* The search keys of the Keap contact search.
KeapSearchKeys == {"email", "given_name"}

\* The entries of slot i's query string that carry a search key.
SearchEntries(i) ==
  {n \in DOMAIN QueryEntries(req[i].url) :
     QueryKey(QueryEntries(req[i].url)[n]) \in KeapSearchKeys}

\* The request of slot i starts with the search key the query selects and
\* the percent-encoded query, followed by limit and fields.
SearchKeyFirst(i) ==
  LET entries == QueryEntries(req[i].url)
      query == Get(args[i], "query").v
  IN /\ Len(entries) >= 3
     /\ entries[1] = (IF Contains(query, "@") THEN "email=" ELSE "given_name=")
                       \o MapChars(query, "uri")
     /\ ~Contains(entries[1], "@") /\ ~Contains(entries[1], " ")
     /\ QueryKey(entries[2]) = "limit"
     /\ QueryKey(entries[3]) = "fields"

\* C27 as stated: a request of keap-search-contacts carries exactly one of
\* the keys email and given_name, the one the '@' of the query selects, with
\* the encoded query, followed by limit and fields.
C27_Original ==
  \A i \in Slots :
    Requested(i) /\ tool[i] = "keap-search-contacts" =>
      SearchKeyFirst(i) /\ Cardinality(SearchEntries(i)) = 1

\* What holds of every request of the search: the selected key comes first.
SearchKeyAlwaysFirst ==
  \A i \in Slots :
    Requested(i) /\ tool[i] = "keap-search-contacts" => SearchKeyFirst(i)

\* The servers whose tools take the credential as the input apiKey.
PerCallServers == {"freshworks", "ghl", "hubspot", "keap"}

\* Slot i has issued a request of a server that takes the key per call.
IssuedWithKey(i) == calls[i] >= 1 /\ ServerOf(tool[i]) \in PerCallServers

\* C28: the Authorization header of a request of the FreshWorks,
\* GoHighLevel, Hubspot and Keap servers is "Bearer " and the apiKey of the
\* invocation that issued it, and holds the key of no other invocation,
\* earlier or concurrent, that supplied a different one.
C28_OwnKeyOnly ==
  \A i \in Slots :
    IssuedWithKey(i) =>
      /\ req[i].headers.Authorization = "Bearer " \o SuppliedKey(i)
      /\ \A j \in Slots \ {i} :
           IssuedWithKey(j) /\ SuppliedKey(j) # SuppliedKey(i) =>
             ~Contains(req[i].headers.Authorization, SuppliedKey(j))

\* C28 witness: two invocations of one Keap tool with different keys, the
\* first already returned, the second still waiting on its call, and each
\* request carries the key of its own invocation.
C28_Witness ==
  \E i, j \in Slots :
    /\ tool[i] = "keap-search-contacts" /\ tool[j] = "keap-search-contacts"
    /\ Done(i) /\ calls[i] = 1 /\ pc[j] = "awaiting"
    /\ SuppliedKey(i) = "apiKey1" /\ SuppliedKey(j) = "key2"
    /\ req[i].headers.Authorization = "Bearer apiKey1"
    /\ req[j].headers.Authorization = "Bearer key2"

\* The Pipedrive call of slot i rejected and the catch block has run.
Rejected(i) == Done(i) /\ calls[i] = 1 /\ resp[i].kind = "thrown"

\* The thrown value e is a non-null object whose message is a string.
CarriesMessage(e) ==
  \/ e.t = "error"
  \/ e.t = "object" /\ Get(e, "message").t = "string"

\* The message the claim gives for the thrown value e: its message
\* property, or else its string conversion.
MessageOf(e) ==
  IF e.t = "error" THEN e.message.v
  ELSE IF CarriesMessage(e) THEN Get(e, "message").v
  ELSE JsString(e)

\* The catch block of slot i returned '<operation prefix>: <message>' for
\* the value thrown, and raised nothing.
CaughtText(i) ==
  /\ ~escaped[i]
  /\ IsError(Envelope(i))
  /\ Said(i) = PipedrivePhrase(tool[i], args[i]) \o ": "
                 \o MessageOf(resp[i].value)

\* C29 (amended): for a thrown value that is a non-null object with a
\* string message the catch block reports the message, and for every other
\* value that has a string conversion (null and undefined included) it
\* reports that conversion, without raising; for an object without a string
\* message that cannot be converted to a string, String(error) raises and
\* the handler returns no Envelope.
C29_MessageOrString ==
  \A i \in Slots :
    Rejected(i) =>
      IF IsBare(resp[i].value) /\ ~CarriesMessage(resp[i].value)
      THEN escaped[i]
      ELSE CaughtText(i)

\* C29 witness: the client rejected with null and the tool answered with
\* its prefix and "null".
C29_Witness ==
  \E i \in Slots :
    /\ Rejected(i) /\ resp[i].value = Null /\ tool[i] = "getAllPersons"
    /\ ~escaped[i] /\ Said(i) = "Error fetching persons: null"

\* C29 as stated: whatever value is thrown, the catch block builds its text
\* and raises nothing.
C29_Original ==
  \A i \in Slots : Rejected(i) => CaughtText(i)

Next ==
  \E i \in Slots :
    \/ \E t \in Tools : \E in \in Inputs(t) : Invoke(i, t, in)
    \/ \E reply \in Replies : Respond(i, reply)
    \/ ReadBody(i)

\* The tools followed when two invocations run at once: one of each server.
ConcurrentTools ==
  {"searchPersons", "freshdesk-list-tickets", "getContacts",
   "hubspot-get-contact", "keap-search-contacts"}

NextConcurrent ==
  \E i \in Slots :
    \/ \E t \in ConcurrentTools : \E in \in Inputs(t) : Invoke(i, t, in)
    \/ \E reply \in Replies : Respond(i, reply)
    \/ ReadBody(i)

\* The startup script of a server, and the invocations it serves.
NextStartup ==
  \/ \E s \in Servers : Start(s) \/ Register(s) \/ Connect(s)
  \/ Next

Spec == Init /\ [][Next]_vars
SpecTwice == InitTwice /\ [][Next]_vars
SpecStartup == InitStartup /\ [][NextStartup]_vars
SpecConcurrent == InitConcurrent /\ [][NextConcurrent]_vars

\* Every HTTP call completes or fails, and so does every reading of a
\* response body.  The second conjunct is WF_vars(ReadBody(i)) with
\* ENABLED <<ReadBody(i)>>_vars written as the state predicate it equals:
\* the handler is total and its return always moves pc[i].
Settling ==
  \A i \in Slots :
    /\ WF_vars(\E reply \in Replies : Respond(i, reply))
    /\ \/ []<>(pc[i] # "reading")
       \/ []<><<ReadBody(i)>>_vars
\* The Pipedrive server with a client that may reject with any value.
NextThrown ==
  \/ \E i \in Slots, t \in PipedriveTools :
       \E in \in Inputs(t) : Invoke(i, t, in)
  \/ \E i \in Slots, e \in ThrownValues : Reject(i, e)
SpecThrown == Init /\ [][NextThrown]_vars

SpecLive == Init /\ [][Next]_vars /\ Settling

====
